---- MODULE Spec2Model ----
(***************************************************************************)
(* Segmentation and comparison engine of the stress analyzer               *)
(* (src/src/stats.ts).                                                     *)
(*                                                                         *)
(* Dates are ISO strings YYYY-MM-DD in the source, compared with <, >= and *)
(* localeCompare; on that format the string order is the calendar order,   *)
(* so a date is modelled by its day number.  Day 1 is 2024-01-01.          *)
(* Scores are numbers; the arithmetic on them is modelled exactly, with    *)
(* rationals (Rat) and with square roots of rationals (Root).              *)
(***************************************************************************)
EXTENDS Integers, Sequences, FiniteSets, TLC

VARIABLES entries, waypoints, segments, comparison, called,
          xs, ys, ret, stats, raw, special, storage, issued, chart

vars == <<entries, waypoints, segments, comparison, called, xs, ys, ret, stats,
          raw, special, storage, issued, chart>>

(***************************************************************************)
(* Bounds of the model.                                                    *)
(***************************************************************************)
MaxDate == 4
MaxWps == 2
MaxLen == 4
MaxGroup == 3
MaxCalls == 2
MaxRows == 3
MaxIds == 3
MaxCharts == 2
XBits == 10
SlackBits == 36

\* the days a measurement can be dated
Dates == 1..MaxDate
\* the days a waypoint can be dated: also before the first and after the last
WpDates == 0..(MaxDate + 1)
\* scores of the series given to buildSegments
SegScores == {40, 90}
\* score of the series split across one of several waypoints
SplitScores == {50}
\* scores of the series given to computeWaypointComparison
CmpScores == {0, 40, 50, 90}
\* the numbers of a value sequence given to the descriptive functions
Values == {-10, 0, 10, 20, 30, 40}
\* the numbers of the two groups given to welchTTest and cohensD
GroupValues == {0, 50, 90}
\* the percentiles asked for
Percents == {0, 10, 25, 50, 75, 90, 100}
\* the scores of the series whose segments are summarised
ReportScores == {10, 40, 90}
\* the scores of the series that are averaged
MovingScores == {10, 20, 30, 40}
\* the windows asked for: 1 up to one more than the longest series
Windows == 1..(MaxDate + 1)
\* the labels of the waypoints of a list, by position: main.ts refuses an
\* empty label
Labels == <<"Change", "B", "C", "D">>

(***************************************************************************)
(* Exact arithmetic: a rational is [n, d] with d > 0 in lowest terms.      *)
(***************************************************************************)
Abs(x) == IF x < 0 THEN -x ELSE x

RECURSIVE Gcd(_, _)
Gcd(a, b) == IF b = 0 THEN a ELSE Gcd(b, a % b)

Rat(n, d) ==
  LET s == IF d < 0 THEN -1 ELSE 1
      g == Gcd(Abs(n), Abs(d))
  IN  [n |-> (s * n) \div g, d |-> (s * d) \div g]

RInt(k) == [n |-> k, d |-> 1]
RZero == RInt(0)
\* the operations reduce before they multiply, to keep the numbers small
RAdd(p, q) ==
  LET g == Gcd(p.d, q.d)
  IN  Rat(p.n * (q.d \div g) + q.n * (p.d \div g), (p.d \div g) * q.d)
RNeg(p) == [n |-> -p.n, d |-> p.d]
RSub(p, q) == RAdd(p, RNeg(q))
RMul(p, q) ==
  LET g1 == Gcd(Abs(p.n), q.d)
      g2 == Gcd(Abs(q.n), p.d)
  IN  Rat((p.n \div g1) * (q.n \div g2), (p.d \div g2) * (q.d \div g1))
RDiv(p, q) == RMul(p, IF q.n < 0 THEN [n |-> -q.d, d |-> -q.n] ELSE [n |-> q.d, d |-> q.n])
RLt(p, q) == p.n * q.d < q.n * p.d
RLe(p, q) == p.n * q.d <= q.n * p.d
RSign(p) == IF p.n > 0 THEN 1 ELSE IF p.n < 0 THEN -1 ELSE 0
RAbs(p) == [n |-> Abs(p.n), d |-> p.d]

\* sgn * sqrt(sq): the value of an expression that divides by or returns a
\* Math.sqrt of a rational
Root(sgn, sq) == [sgn |-> IF sq.n = 0 THEN 0 ELSE sgn, sq |-> sq]

RECURSIVE SumSeq(_)
SumSeq(s) == IF s = <<>> THEN 0 ELSE Head(s) + SumSeq(Tail(s))

\* entries.map(e => e.score)
RECURSIVE ScoresOf(_)
ScoresOf(es) == IF es = <<>> THEN <<>> ELSE <<Head(es).score>> \o ScoresOf(Tail(es))

(***************************************************************************)
(* Descriptive statistics.                                                 *)
(***************************************************************************)
mean(values) ==
  IF Len(values) = 0 THEN RZero ELSE Rat(SumSeq(values), Len(values))

\* sum of (v - m)^2 over the values
RECURSIVE SumSqDiff(_, _)
SumSqDiff(values, m) ==
  IF values = <<>> THEN RZero
  ELSE LET diff == RSub(RInt(Head(values)), m)
       IN  RAdd(RMul(diff, diff), SumSqDiff(Tail(values), m))

\* the variance of a population: the sum is divided by n
varianceOfPopulation(values) ==
  IF Len(values) < 2 THEN RZero
  ELSE RDiv(SumSqDiff(values, mean(values)), RInt(Len(values)))

variance(values) ==
  IF Len(values) < 2 THEN RZero
  ELSE RDiv(SumSqDiff(values, mean(values)), RInt(Len(values) - 1))

\* a sort of the array itself: the caller's array is left sorted
LeftBySortInPlace(arr, sorted) == sorted

\* [...arr].sort(...) sorts a copy: the caller's array is left as it was
LeftBySortOfCopy(arr, sorted) == arr

\* [...values].sort((a, b) => a - b)
RECURSIVE InsertNum(_, _)
InsertNum(sorted, v) ==
  IF sorted = <<>> THEN <<v>>
  ELSE IF Head(sorted) <= v
       THEN <<Head(sorted)>> \o InsertNum(Tail(sorted), v)
       ELSE <<v>> \o sorted

\* a copy that is left in the order of the values given
Unsorted(values) == values

RECURSIVE SortNum(_)
SortNum(values) ==
  IF values = <<>> THEN <<>>
  ELSE InsertNum(SortNum(SubSeq(values, 1, Len(values) - 1)), values[Len(values)])

\* sorted[k] of the source, k from 0
At(sorted, k) == sorted[k + 1]

\* the median without its guard: of no value it is
\* (undefined + undefined) / 2, which is NaN, written 0/0
medianOfSortedCopy(values) ==
  IF Len(values) = 0 THEN [n |-> 0, d |-> 0]
  ELSE LET sorted == SortNum(values)
           mid    == Len(sorted) \div 2
       IN  IF Len(sorted) % 2 # 0
           THEN RInt(At(sorted, mid))
           ELSE Rat(At(sorted, mid - 1) + At(sorted, mid), 2)

median(values) ==
  IF Len(values) = 0 THEN RZero
  ELSE LET sorted == SortNum(values)
           mid    == Len(sorted) \div 2
       IN  IF Len(sorted) % 2 # 0
           THEN RInt(At(sorted, mid))
           ELSE Rat(At(sorted, mid - 1) + At(sorted, mid), 2)

\* a rank that is cut to the whole position below it
RankBelow(p, n) == RInt((p * (n - 1)) \div 100)

\* (p / 100) * (sorted.length - 1)
Rank(p, n) == Rat(p * (n - 1), 100)

percentile(values, p) ==
  IF Len(values) = 0 THEN RZero
  ELSE LET sorted == SortNum(values)
           idx    == Rank(p, Len(sorted))
           lower  == idx.n \div idx.d
           upper  == IF idx.n % idx.d = 0 THEN lower ELSE lower + 1
       IN  IF lower = upper THEN RInt(At(sorted, lower))
           ELSE RAdd(RInt(At(sorted, lower)),
                     RMul(RInt(At(sorted, upper) - At(sorted, lower)),
                          RSub(idx, RInt(lower))))

stdDev(values) ==
  IF Len(values) < 2 THEN Root(0, RZero)
  ELSE Root(1, RDiv(SumSqDiff(values, mean(values)), RInt(Len(values) - 1)))

coefficientOfVariation(values) ==
  LET m == mean(values)
  IN  IF m = RZero THEN Root(0, RZero)
      ELSE Root(RSign(m) * stdDev(values).sgn,
                RDiv(RMul(stdDev(values).sq, RInt(10000)), RMul(m, m)))

\* the sums of the regression loop, x = 0, 1, ... paired with the values
RECURSIVE SumXY(_, _)
SumXY(values, i) ==
  IF i > Len(values) THEN 0 ELSE (i - 1) * values[i] + SumXY(values, i + 1)

RECURSIVE SumX(_)
SumX(n) == IF n = 0 THEN 0 ELSE (n - 1) + SumX(n - 1)

RECURSIVE SumX2(_)
SumX2(n) == IF n = 0 THEN 0 ELSE (n - 1) * (n - 1) + SumX2(n - 1)

linearRegressionSlope(values) ==
  LET n == Len(values)
  IN  IF n < 2 THEN RZero
      ELSE LET denom == n * SumX2(n) - SumX(n) * SumX(n)
           IN  IF denom = 0 THEN RZero
               ELSE Rat(n * SumXY(values, 1) - SumX(n) * SumSeq(values), denom)

\* an intercept that leaves the slope out: the mean of the values
InterceptAtMean(slope, sumX, sumY, n) == RDiv(RInt(sumY), RInt(n))

\* (sumY - slope * sumX) / n
Intercept(slope, sumX, sumY, n) ==
  RDiv(RSub(RInt(sumY), RMul(slope, RInt(sumX))), RInt(n))

linearRegression(values) ==
  LET n == Len(values)
  IN  IF n < 2
      THEN [slope |-> RZero, intercept |-> IF n = 0 THEN RZero ELSE RInt(values[1])]
      ELSE LET denom == n * SumX2(n) - SumX(n) * SumX(n)
           IN  IF denom = 0
               THEN [slope |-> RZero, intercept |-> Rat(SumSeq(values), n)]
               ELSE LET slope == Rat(n * SumXY(values, 1) - SumX(n) * SumSeq(values),
                                     denom)
                    IN  [slope     |-> slope,
                         intercept |-> Intercept(slope, SumX(n), SumSeq(values), n)]

RECURSIVE MinOf(_)
MinOf(values) ==
  IF Len(values) = 1 THEN values[1]
  ELSE LET m == MinOf(Tail(values)) IN IF values[1] < m THEN values[1] ELSE m

RECURSIVE MaxOf(_)
MaxOf(values) ==
  IF Len(values) = 1 THEN values[1]
  ELSE LET m == MaxOf(Tail(values)) IN IF values[1] > m THEN values[1] ELSE m

\* Math.min and Math.max of no argument are Infinity and -Infinity
Infinity == [n |-> 1, d |-> 0]
MinusInfinity == [n |-> -1, d |-> 0]

(***************************************************************************)
(* Moving averages.                                                        *)
(***************************************************************************)
Null == [null |-> TRUE]

\* a warm-up that is one measurement too long
InWarmUpOneMore(i, window) == i < window

\* i < window - 1, i counted from 0
InWarmUp(i, window) == i < window - 1

\* entries.slice(i - window + 1, i + 1) holds the positions
\* i - window + 2 .. i + 1 counted from 1
movingAverage(es, window) ==
  [k \in 1..Len(es) |->
     LET i == k - 1
     IN  IF InWarmUp(i, window) THEN Null
         ELSE mean(ScoresOf(SubSeq(es, i - window + 2, i + 1)))]

(***************************************************************************)
(* Two-sample inference.  The p-value of a proper test is                  *)
(* 2 * tDistPValue(|t|, df), a value of the incomplete beta function: it   *)
(* is kept as the pair (t^2, df) that determines it.                       *)
(***************************************************************************)
PValue(r) == [exact |-> TRUE, value |-> r]
TwoTailed(t2, df) == [exact |-> FALSE, t2 |-> t2, df |-> df]

\* a standard error that divides both variances by the size of the first group
SquaredStandardErrorOneSize(varA, nA, varB, nB) ==
  RAdd(RDiv(varA, RInt(nA)), RDiv(varB, RInt(nA)))

\* varA / nA + varB / nB, whose root is se
SquaredStandardError(varA, nA, varB, nB) ==
  RAdd(RDiv(varA, RInt(nA)), RDiv(varB, RInt(nB)))

welchTTest(a, b) ==
  IF Len(a) < 2 \/ Len(b) < 2 THEN PValue(RInt(1))
  ELSE LET meanA == mean(a)
           meanB == mean(b)
           varA  == variance(a)
           varB  == variance(b)
           nA    == Len(a)
           nB    == Len(b)
           se2   == SquaredStandardError(varA, nA, varB, nB)
       IN  IF se2 = RZero THEN PValue(RInt(1))
           ELSE LET diff  == RSub(meanA, meanB)
                    num   == RMul(se2, se2)
                    denom == RAdd(RDiv(RMul(RDiv(varA, RInt(nA)), RDiv(varA, RInt(nA))),
                                       RInt(nA - 1)),
                                  RDiv(RMul(RDiv(varB, RInt(nB)), RDiv(varB, RInt(nB))),
                                       RInt(nB - 1)))
                IN  TwoTailed(RDiv(RMul(diff, diff), se2), RDiv(num, denom))

\* a deviation taken from the first group alone
PooledVarianceFirstGroup(a, b) == variance(a)

\* the pooled variance, whose root is pooledSD
PooledVariance(a, b) ==
  RDiv(RAdd(RMul(RInt(Len(a) - 1), variance(a)), RMul(RInt(Len(b) - 1), variance(b))),
       RInt(Len(a) + Len(b) - 2))

\* a test that lets a group of one observation through when the pooled
\* variance still has a degree of freedom
TooFewToPool(a, b) == Len(a) < 1 \/ Len(b) < 1 \/ Len(a) + Len(b) < 3

\* a.length < 2 || b.length < 2
TooFewForEffect(a, b) == Len(a) < 2 \/ Len(b) < 2

\* a difference of the means that forgets which group is which
MeanDistance(a, b) == RAbs(RSub(mean(a), mean(b)))

\* meanA - meanB
MeanDifference(a, b) == RSub(mean(a), mean(b))

cohensD(a, b) ==
  IF TooFewForEffect(a, b) THEN Root(0, RZero)
  ELSE LET diff     == MeanDifference(a, b)
           pooledSD == Root(1, PooledVariance(a, b))
       IN  IF pooledSD.sgn = 0 THEN Root(0, RZero)
           ELSE Root(RSign(diff), RDiv(RMul(diff, diff), pooledSD.sq))

\* abs < 0.2, 0.5, 0.8 on the square of d
effectSizeLabel(d) ==
  IF RLt(d.sq, Rat(4, 100)) THEN "negligible"
  ELSE IF RLt(d.sq, Rat(25, 100)) THEN "small"
  ELSE IF RLt(d.sq, Rat(64, 100)) THEN "medium"
  ELSE "large"

\* the label of a p-value that is not known exactly is kept as the p-value
\* it is the label of
significanceLabel(p) ==
  IF ~ p.exact THEN [labelOf |-> p]
  ELSE IF RLt(p.value, Rat(1, 1000)) THEN "highly significant"
  ELSE IF RLt(p.value, Rat(1, 100)) THEN "very significant"
  ELSE IF RLt(p.value, Rat(5, 100)) THEN "significant"
  ELSE IF RLt(p.value, Rat(1, 10)) THEN "marginally significant"
  ELSE "not significant"

(***************************************************************************)
(* Segment analysis: buildSegments.                                        *)
(***************************************************************************)
\* a sort that puts w before the waypoints of its own date
RECURSIVE InsertByDateUnstable(_, _)
InsertByDateUnstable(sorted, w) ==
  IF sorted = <<>> THEN <<w>>
  ELSE IF Head(sorted).date < w.date
       THEN <<Head(sorted)>> \o InsertByDateUnstable(Tail(sorted), w)
       ELSE <<w>> \o sorted

\* Array.prototype.sort is stable: w goes behind every waypoint that does
\* not compare greater
RECURSIVE InsertByDate(_, _)
InsertByDate(sorted, w) ==
  IF sorted = <<>> THEN <<w>>
  ELSE IF Head(sorted).date <= w.date
       THEN <<Head(sorted)>> \o InsertByDate(Tail(sorted), w)
       ELSE <<w>> \o sorted

\* [...waypoints].sort((a, b) => a.date.localeCompare(b.date))
RECURSIVE SortByDate(_)
SortByDate(wps) ==
  IF wps = <<>> THEN <<>>
  ELSE InsertByDate(SortByDate(SubSeq(wps, 1, Len(wps) - 1)), wps[Len(wps)])

RECURSIVE DatesOf(_)
DatesOf(wps) == IF wps = <<>> THEN <<>> ELSE <<Head(wps).date>> \o DatesOf(Tail(wps))

\* boundaries that start at the first waypoint, not at the first date
BoundariesFromFirstWaypoint(es, sortedWps) ==
  DatesOf(sortedWps) \o <<es[Len(es)].date>>

\* [firstDate, ...sortedWps.map(w => w.date), lastDate]; read with the
\* source's index b through Boundary
Boundaries(es, sortedWps) ==
  <<es[1].date>> \o DatesOf(sortedWps) \o <<es[Len(es)].date>>

Boundary(boundaries, b) == boundaries[b + 1]

\* a filter that also takes the measurement on the closing boundary
InSegmentInclusive(e, boundaries, i) ==
  IF i = 0 THEN e.date <= Boundary(boundaries, 1)
  ELSE IF i = Len(boundaries) - 2 THEN e.date >= Boundary(boundaries, i)
  ELSE e.date >= Boundary(boundaries, i) /\ e.date <= Boundary(boundaries, i + 1)

\* the filter of the loop body, for the boundary pair i = 0, 1, ...
InSegment(e, boundaries, i) ==
  IF i = 0 THEN e.date < Boundary(boundaries, 1)
  ELSE IF i = Len(boundaries) - 2 THEN e.date >= Boundary(boundaries, i)
  ELSE e.date >= Boundary(boundaries, i) /\ e.date < Boundary(boundaries, i + 1)

SegEntries(es, boundaries, i) ==
  SelectSeq(es, LAMBDA e : InSegment(e, boundaries, i))

\* sortedWps[j]?.label, "" when there is no such waypoint (both are falsy)
LabelAt(sortedWps, j) ==
  IF j + 1 \in DOMAIN sortedWps THEN sortedWps[j + 1].label ELSE ""

\* x || fallback
OrElse(x, fallback) == IF x = "" THEN fallback ELSE x

\* a label that numbers every segment
SegLabelNumbered(sortedWps, boundaries, i) == "Segment " \o ToString(i + 1)

\* the label of the segment of pair i
SegLabel(sortedWps, boundaries, i) ==
  IF i = 0
  THEN "Before " \o OrElse(LabelAt(sortedWps, 0), "first waypoint")
  ELSE IF i = Len(boundaries) - 2 /\ Len(sortedWps) > 0
  THEN "After " \o OrElse(LabelAt(sortedWps, Len(sortedWps) - 1), "last waypoint")
  ELSE IF LabelAt(sortedWps, i - 1) # ""
  THEN LabelAt(sortedWps, i - 1) \o " to " \o OrElse(LabelAt(sortedWps, i), "end")
  ELSE "Segment " \o ToString(i + 1)

\* a loop that puts each new segment in front of the others
RECURSIVE SegmentLoopUnshift(_, _, _, _, _)
SegmentLoopUnshift(es, sortedWps, boundaries, i, acc) ==
  IF i >= Len(boundaries) - 1 THEN acc
  ELSE LET segEntries == SelectSeq(es, LAMBDA e : InSegment(e, boundaries, i))
       IN  IF Len(segEntries) = 0
           THEN SegmentLoopUnshift(es, sortedWps, boundaries, i + 1, acc)
           ELSE SegmentLoopUnshift(es, sortedWps, boundaries, i + 1,
                  <<[label     |-> SegLabel(sortedWps, boundaries, i),
                     startDate |-> segEntries[1].date,
                     endDate   |-> segEntries[Len(segEntries)].date,
                     entries   |-> segEntries]>> \o acc)

\* a loop that keeps the empty segments, dated by their boundaries
RECURSIVE SegmentLoopKeepEmpty(_, _, _, _, _)
SegmentLoopKeepEmpty(es, sortedWps, boundaries, i, acc) ==
  IF i >= Len(boundaries) - 1 THEN acc
  ELSE LET segEntries == SelectSeq(es, LAMBDA e : InSegment(e, boundaries, i))
       IN  SegmentLoopKeepEmpty(es, sortedWps, boundaries, i + 1,
             Append(acc, [label     |-> SegLabel(sortedWps, boundaries, i),
                          startDate |-> Boundary(boundaries, i),
                          endDate   |-> Boundary(boundaries, i + 1),
                          entries   |-> segEntries]))

\* the for loop, from pair i on, with the segments pushed so far
RECURSIVE SegmentLoop(_, _, _, _, _)
SegmentLoop(es, sortedWps, boundaries, i, acc) ==
  IF i >= Len(boundaries) - 1 THEN acc
  ELSE LET segEntries == SegEntries(es, boundaries, i)
       IN  IF Len(segEntries) = 0
           THEN SegmentLoop(es, sortedWps, boundaries, i + 1, acc)
           ELSE SegmentLoop(es, sortedWps, boundaries, i + 1,
                  Append(acc, [label     |-> SegLabel(sortedWps, boundaries, i),
                               startDate |-> segEntries[1].date,
                               endDate   |-> segEntries[Len(segEntries)].date,
                               entries   |-> segEntries]))

buildSegments(es, wps) ==
  IF Len(es) = 0 THEN <<>>
  ELSE LET sortedWps  == SortByDate(wps)
           boundaries == Boundaries(es, sortedWps)
           segs       == SegmentLoop(es, sortedWps, boundaries, 0, <<>>)
       IN  IF Len(segs) = 0
           THEN <<[label     |-> "All Data",
                   startDate |-> es[1].date,
                   endDate   |-> es[Len(es)].date,
                   entries   |-> es]>>
           ELSE segs

(***************************************************************************)
(* Segment analysis: computeSegmentStats and computeWaypointComparison.    *)
(***************************************************************************)
\* a count kept in a counter of the module, which outlives the call
CountOfCalls(scores) == Len(scores) + Cardinality(stats)

\* scores.length
CountOf(scores) == Len(scores)

computeSegmentStats(segment) ==
  LET scores == ScoresOf(segment.entries)
      slope  == linearRegressionSlope(scores)
  IN  [label     |-> segment.label,
       startDate |-> segment.startDate,
       endDate   |-> segment.endDate,
       count     |-> CountOf(scores),
       mean      |-> mean(scores),
       median    |-> median(scores),
       stdDev    |-> stdDev(scores),
       min       |-> IF scores = <<>> THEN Infinity ELSE RInt(MinOf(scores)),
       max       |-> IF scores = <<>> THEN MinusInfinity ELSE RInt(MaxOf(scores)),
       coefficientOfVariation |-> coefficientOfVariation(scores),
       p25       |-> percentile(scores, 25),
       p75       |-> percentile(scores, 75),
       trendSlope |-> slope,
       trendDirection |-> IF RLt(RAbs(slope), Rat(1, 100)) THEN "flat"
                          ELSE IF slope.n > 0 THEN "rising" ELSE "falling"]

\* a split that puts the measurement of the waypoint's date on both sides
BeforeEntriesInclusive(es, waypoint) == SelectSeq(es, LAMBDA e : e.date <= waypoint.date)

\* entries.filter(e => e.date < waypoint.date)
BeforeEntries(es, waypoint) == SelectSeq(es, LAMBDA e : e.date < waypoint.date)
\* entries.filter(e => e.date >= waypoint.date)
AfterEntries(es, waypoint) == SelectSeq(es, LAMBDA e : e.date >= waypoint.date)

\* a test that lets a side of one measurement through
InsufficientDataBelowOne(before, after) == Len(before) < 1 \/ Len(after) < 1

\* before.length < 2 || after.length < 2
InsufficientData(before, after) == Len(before) < 2 \/ Len(after) < 2

\* a difference taken the wrong way round
DeltaMeanReversed(afterMean, beforeMean) == RSub(beforeMean, afterMean)

\* afterStats.mean - beforeStats.mean
DeltaMean(afterMean, beforeMean) == RSub(afterMean, beforeMean)

\* the return value: <<>> is null, <<r>> the comparison r
computeWaypointComparison(es, waypoint) ==
  LET before == ScoresOf(BeforeEntries(es, waypoint))
      after  == ScoresOf(AfterEntries(es, waypoint))
  IN  IF InsufficientData(before, after) THEN <<>>
      ELSE LET beforeEntries == BeforeEntries(es, waypoint)
               afterEntries  == AfterEntries(es, waypoint)
               beforeStats   == computeSegmentStats(
                    [label     |-> "Before " \o waypoint.label,
                     startDate |-> beforeEntries[1].date,
                     endDate   |-> beforeEntries[Len(beforeEntries)].date,
                     entries   |-> beforeEntries])
               afterStats    == computeSegmentStats(
                    [label     |-> "After " \o waypoint.label,
                     startDate |-> afterEntries[1].date,
                     endDate   |-> afterEntries[Len(afterEntries)].date,
                     entries   |-> afterEntries])
               delta  == DeltaMean(afterStats.mean, beforeStats.mean)
               pct    == IF beforeStats.mean # RZero
                         THEN RMul(RDiv(delta, beforeStats.mean), RInt(100))
                         ELSE RZero
               pValue == welchTTest(before, after)
               d      == cohensD(before, after)
           IN  <<[waypoint          |-> waypoint,
                  before            |-> beforeStats,
                  after             |-> afterStats,
                  deltaMean         |-> delta,
                  percentChange     |-> pct,
                  tTestPValue       |-> pValue,
                  cohensD           |-> d,
                  significanceLabel |-> significanceLabel(pValue),
                  effectSizeLabel   |-> effectSizeLabel(d)]>>

(***************************************************************************)
(* The inputs: a series is ascending by date with unique dates (csv.ts     *)
(* sorts and deduplicates), a waypoint list is in any order.               *)
(***************************************************************************)
RECURSIVE SeriesOver(_, _)
SeriesOver(scores, from) ==
  IF from > MaxDate THEN {<<>>}
  ELSE LET rest == SeriesOver(scores, from + 1)
       IN  rest \cup {<<[date |-> from, score |-> sc]>> \o r : sc \in scores, r \in rest}

\* waypoint lists of at most k waypoints, in any order of dates; the ids
\* are unique
RECURSIVE WaypointLists(_)
WaypointLists(k) ==
  IF k = 0 THEN {<<>>}
  ELSE LET shorter == WaypointLists(k - 1)
       IN  shorter \cup
           {Append(l, [id |-> k, date |-> d, label |-> Labels[k]]) :
              l \in {x \in shorter : Len(x) = k - 1}, d \in WpDates}

NoSegments == <<>>
NoComparison == <<>>
NoReturn == <<>>
NoStats == {}

\* no special function is being computed
NoSpecial == [pc |-> "idle"]

\* localStorage.getItem(STORAGE_KEY) is null: nothing was saved, or
\* clearAll removed it
NoItem == [item |-> "none"]

\* null where the id of a series or a Chart object can be: ids and objects
\* are numbered from 1
NoId == 0

\* let chartInstance: Chart | null = null, and no Chart object is alive
NoChart == [chartInstance |-> NoId, live |-> {}]

\* the page as it is loaded for the first time: empty storage, no id was
\* generated, no chart was drawn
NoStore ==
  /\ storage = NoItem
  /\ issued = {}
  /\ chart = NoChart

StoreUnchanged == UNCHANGED <<storage, issued, chart>>

\* nothing of the application around the engine is in use: no text is
\* being imported, and no special function is on its way
NoApp ==
  /\ raw = <<>>
  /\ special = NoSpecial
  /\ NoStore

\* what a call of the engine leaves of the application
AppUnchanged == UNCHANGED <<raw, special, storage, issued, chart>>

\* no value sequence is given and no descriptive function has returned
NoValues ==
  /\ xs = <<>>
  /\ ys = <<>>
  /\ ret = NoReturn
  /\ stats = NoStats

InitSegments ==
  /\ entries \in SeriesOver(SegScores, 1)
  /\ waypoints \in WaypointLists(MaxWps)
  /\ segments = NoSegments
  /\ comparison = NoComparison
  /\ called = <<"none", 0>>
  /\ NoApp
  /\ NoValues

\* a caller hands the series and the waypoints to buildSegments
BuildSegmentsCall ==
  /\ segments' = buildSegments(entries, waypoints)
  /\ called' = <<"buildSegments", 0>>
  /\ AppUnchanged
  /\ waypoints' = LeftBySortOfCopy(waypoints, SortByDate(waypoints))
  /\ UNCHANGED <<entries, comparison, xs, ys, ret, stats>>

InitComparison ==
  /\ entries \in SeriesOver(CmpScores, 1)
  /\ waypoints \in {l \in WaypointLists(1) : Len(l) = 1}
  /\ segments = NoSegments
  /\ comparison = NoComparison
  /\ called = <<"none", 0>>
  /\ NoApp
  /\ NoValues

InitSplit ==
  /\ entries \in SeriesOver(SplitScores, 1)
  /\ waypoints \in WaypointLists(MaxWps)
  /\ segments = NoSegments
  /\ comparison = NoComparison
  /\ called = <<"none", 0>>
  /\ NoApp
  /\ NoValues

\* a caller hands the series and one of the waypoints (main.ts: the
\* selected one) to computeWaypointComparison
ComputeWaypointComparisonCall(w) ==
  /\ comparison' = computeWaypointComparison(entries, waypoints[w])
  /\ called' = <<"computeWaypointComparison", w>>
  /\ AppUnchanged
  /\ UNCHANGED <<entries, waypoints, segments, xs, ys, ret, stats>>

(***************************************************************************)
(* The descriptive functions, called on a value sequence.                  *)
(***************************************************************************)
\* the sequences over a set of numbers, of at most k numbers
RECURSIVE SeqsOver(_, _)
SeqsOver(numbers, k) ==
  IF k = 0 THEN {<<>>}
  ELSE LET shorter == SeqsOver(numbers, k - 1)
       IN  shorter \cup {Append(q, v) : q \in {x \in shorter : Len(x) = k - 1},
                                        v \in numbers}

InitValues ==
  /\ xs \in SeqsOver(Values, MaxLen)
  /\ ys = <<>>
  /\ ret = NoReturn
  /\ stats = NoStats
  /\ entries = <<>>
  /\ waypoints = <<>>
  /\ segments = NoSegments
  /\ comparison = NoComparison
  /\ called = <<"none", 0>>
  /\ NoApp

\* what a call leaves of the engine's other state
EngineUnchanged == UNCHANGED <<entries, waypoints, segments, comparison, stats>>

MeanCall ==
  /\ ret' = mean(xs)
  /\ called' = <<"mean", 0>>
  /\ AppUnchanged
  /\ UNCHANGED <<xs, ys>>
  /\ EngineUnchanged

MedianCall ==
  /\ ret' = median(xs)
  /\ called' = <<"median", 0>>
  /\ AppUnchanged
  /\ xs' = LeftBySortOfCopy(xs, SortNum(xs))
  /\ UNCHANGED ys
  /\ EngineUnchanged

PercentileCall(p) ==
  /\ ret' = percentile(xs, p)
  /\ called' = <<"percentile", p>>
  /\ AppUnchanged
  /\ xs' = LeftBySortOfCopy(xs, SortNum(xs))
  /\ UNCHANGED ys
  /\ EngineUnchanged

StdDevCall ==
  /\ ret' = stdDev(xs)
  /\ called' = <<"stdDev", 0>>
  /\ AppUnchanged
  /\ UNCHANGED <<xs, ys>>
  /\ EngineUnchanged

CoefficientOfVariationCall ==
  /\ ret' = coefficientOfVariation(xs)
  /\ called' = <<"coefficientOfVariation", 0>>
  /\ AppUnchanged
  /\ UNCHANGED <<xs, ys>>
  /\ EngineUnchanged

LinearRegressionCall ==
  /\ ret' = linearRegression(xs)
  /\ called' = <<"linearRegression", 0>>
  /\ AppUnchanged
  /\ UNCHANGED <<xs, ys>>
  /\ EngineUnchanged

SpecValues ==
  InitValues /\ [][\/ MeanCall
                   \/ MedianCall
                   \/ \E p \in Percents : PercentileCall(p)
                   \/ StdDevCall
                   \/ CoefficientOfVariationCall
                   \/ LinearRegressionCall]_vars

(***************************************************************************)
(* The summary of the segments: segments.map(computeSegmentStats).  stats  *)
(* keeps every bundle returned so far with the segment it was asked for    *)
(* and the number of the call for that segment; a segment is summarised at *)
(* most MaxCalls times.                                                    *)
(***************************************************************************)
CallsFor(segment) == Cardinality({b \in stats : b[1] = segment})

InitReport ==
  /\ entries \in SeriesOver(ReportScores, 1)
  /\ waypoints \in WaypointLists(1)
  /\ segments = NoSegments
  /\ comparison = NoComparison
  /\ called = <<"none", 0>>
  /\ NoApp
  /\ NoValues

ComputeSegmentStatsCall(s) ==
  /\ CallsFor(segments[s]) < MaxCalls
  /\ stats' = stats \cup {<<segments[s], computeSegmentStats(segments[s]),
                             CallsFor(segments[s]) + 1>>}
  /\ called' = <<"computeSegmentStats", s>>
  /\ AppUnchanged
  /\ UNCHANGED <<entries, waypoints, segments, comparison, xs, ys, ret>>

SpecReport ==
  InitReport /\ [][\/ BuildSegmentsCall
                   \/ \E s \in DOMAIN segments : ComputeSegmentStatsCall(s)]_vars

(***************************************************************************)
(* The two-sample functions, called on two groups of numbers.              *)
(***************************************************************************)
InitInference ==
  /\ xs \in SeqsOver(GroupValues, MaxGroup)
  /\ ys \in SeqsOver(GroupValues, MaxGroup)
  /\ ret = NoReturn
  /\ stats = NoStats
  /\ entries = <<>>
  /\ waypoints = <<>>
  /\ segments = NoSegments
  /\ comparison = NoComparison
  /\ called = <<"none", 0>>
  /\ NoApp

WelchTTestCall ==
  /\ ret' = welchTTest(xs, ys)
  /\ called' = <<"welchTTest", 0>>
  /\ AppUnchanged
  /\ UNCHANGED <<xs, ys>>
  /\ EngineUnchanged

CohensDCall ==
  /\ ret' = cohensD(xs, ys)
  /\ called' = <<"cohensD", 0>>
  /\ AppUnchanged
  /\ UNCHANGED <<xs, ys>>
  /\ EngineUnchanged

SpecInference == InitInference /\ [][WelchTTestCall \/ CohensDCall]_vars

(***************************************************************************)
(* The moving average of a series, as the chart asks for it.               *)
(***************************************************************************)
InitMoving ==
  /\ entries \in SeriesOver(MovingScores, 1)
  /\ waypoints = <<>>
  /\ segments = NoSegments
  /\ comparison = NoComparison
  /\ called = <<"none", 0>>
  /\ NoApp
  /\ NoValues

MovingAverageCall(window) ==
  /\ ret' = movingAverage(entries, window)
  /\ called' = <<"movingAverage", window>>
  /\ AppUnchanged
  /\ UNCHANGED <<entries, waypoints, segments, comparison, xs, ys, stats>>

SpecMoving == InitMoving /\ [][\E window \in Windows : MovingAverageCall(window)]_vars

(***************************************************************************)
(* The engine as its callers use it: any operation, in any order, on a     *)
(* series with its waypoints or on a value sequence.                       *)
(***************************************************************************)
\* the series with a measurement on each of the first four days whose
\* score never falls
RisingSeries ==
  {es \in SeriesOver(SegScores, 1) :
     /\ DatesOf(es) = <<1, 2, 3, 4>>
     /\ \A i \in 1..3 : es[i].score <= es[i + 1].score}

\* the lists of at most two waypoints on the days 2 and 3, in any order
InnerWaypointLists ==
  {wps \in WaypointLists(2) : \A k \in DOMAIN wps : wps[k].date \in {2, 3}}

InitEngine ==
  /\ \/ /\ entries \in RisingSeries
        /\ waypoints \in InnerWaypointLists
        /\ xs = <<>>
     \/ /\ entries = <<>>
        /\ waypoints = <<>>
        /\ xs \in SeqsOver(GroupValues, MaxGroup)
  /\ ys = <<>>
  /\ ret = NoReturn
  /\ stats = NoStats
  /\ segments = NoSegments
  /\ comparison = NoComparison
  /\ called = <<"none", 0>>
  /\ NoApp

SpecEngine ==
  InitEngine /\ [][\/ BuildSegmentsCall
                   \/ \E s \in DOMAIN segments : ComputeSegmentStatsCall(s)
                   \/ \E w \in DOMAIN waypoints : ComputeWaypointComparisonCall(w)
                   \/ MedianCall
                   \/ \E p \in {25} : PercentileCall(p)
                   \/ StdDevCall
                   \/ \E window \in {2} : MovingAverageCall(window)]_vars

(***************************************************************************)
(* CSV import: parseCSV (src/src/csv.ts).  The text is a sequence of       *)
(* lines.  A line is known by what the parser reads of it: whether it      *)
(* mentions 'date' or 'stress', how many comma or tab separated parts it   *)
(* has (0 for a line of white space), and its first two parts.  A date     *)
(* part is a text of the form  y-a-b,  a/b/y  or  a.b.y  or something      *)
(* else; a score part has a numeric prefix or none.  An ISO date string    *)
(* yyyy-mm-dd is the triple <<y, m, d>>, compared as the strings are.      *)
(***************************************************************************)
DateText(fmt, a, b, y) == [fmt |-> fmt, a |-> a, b |-> b, y |-> y]
NoDateText == DateText("other", 0, 0, 0)

\* parseFloat reads the numeric prefix of a text: <<n>>, or <<>> for NaN
NumberText(n) == <<n>>
NoNumberText == <<>>

Line(mentions, parts, date, score) ==
  [mentions |-> mentions, parts |-> parts, date |-> date, score |-> score]

BlankLine == Line(FALSE, 0, NoDateText, NoNumberText)
HeaderLine == Line(TRUE, 2, NoDateText, NoNumberText)

\* the lines of the texts that are imported
Lines ==
  {BlankLine, HeaderLine, Line(FALSE, 1, DateText("iso", 1, 2, 2024), NoNumberText)}
  \cup {Line(FALSE, 2, d, NumberText(n)) :
          d \in {DateText("iso", 1, 2, 2024), DateText("slash", 2, 1, 2024),
                 DateText("dot", 2, 1, 2024), DateText("slash", 13, 1, 2024)},
          n \in {50, 60}}
  \cup {Line(FALSE, 2, DateText("iso", 1, 2, 2024), NumberText(101)),
        Line(FALSE, 2, DateText("iso", 1, 2, 2024), NoNumberText),
        Line(TRUE, 2, DateText("iso", 2, 1, 2024), NumberText(70))}

\* !isNaN(new Date(iso + 'T00:00:00').getTime()), for days up to 28
IsDate(y, m, d) == m \in 1..12 /\ d \in 1..28

NoDate == <<>>

\* the ISO date string of a date text, or null
normalizeDate(input) ==
  IF input.fmt = "iso" /\ IsDate(input.y, input.a, input.b)
  THEN <<input.y, input.a, input.b>>
  ELSE IF input.fmt = "slash" /\ IsDate(input.y, input.a, input.b)
  THEN <<input.y, input.a, input.b>>
  ELSE IF input.fmt = "dot" /\ IsDate(input.y, input.b, input.a)
  THEN <<input.y, input.b, input.a>>
  ELSE NoDate

\* a.localeCompare(b) < 0 and <= 0 on ISO date strings
IsoLess(p, q) ==
  \/ p[1] < q[1]
  \/ p[1] = q[1] /\ p[2] < q[2]
  \/ p[1] = q[1] /\ p[2] = q[2] /\ p[3] < q[3]
IsoLessEq(p, q) == p = q \/ IsoLess(p, q)

\* raw.trim().split(/\r?\n/): the lines without the blank ones at both ends
RECURSIVE TrimStart(_)
TrimStart(lines) ==
  IF lines # <<>> /\ Head(lines).parts = 0 THEN TrimStart(Tail(lines)) ELSE lines

RECURSIVE TrimEnd(_)
TrimEnd(lines) ==
  IF lines # <<>> /\ lines[Len(lines)].parts = 0
  THEN TrimEnd(SubSeq(lines, 1, Len(lines) - 1))
  ELSE lines

\* the text that is left is one empty line when nothing else is
SplitLines(text) ==
  LET trimmed == TrimEnd(TrimStart(text))
  IN  IF trimmed = <<>> THEN <<BlankLine>> ELSE trimmed

\* the test of a data line: it has two parts, a date and a score in [0, 100]
IsEntry(line) ==
  /\ line.parts >= 2
  /\ normalizeDate(line.date) # NoDate
  /\ line.score # NoNumberText
  /\ line.score[1] >= 0
  /\ line.score[1] <= 100

\* the loop over the data lines: entries.push({ date, score })
RECURSIVE PushEntries(_)
PushEntries(dataLines) ==
  IF dataLines = <<>> THEN <<>>
  ELSE LET line == Head(dataLines)
       IN  (IF IsEntry(line)
            THEN <<[date |-> normalizeDate(line.date), score |-> line.score[1]]>>
            ELSE <<>>) \o PushEntries(Tail(dataLines))

\* the lines that are read as data
DataLines(lines) == IF lines[1].mentions THEN Tail(lines) ELSE lines

\* entries.sort((a, b) => a.date.localeCompare(b.date)), which is stable
RECURSIVE InsertByIso(_, _)
InsertByIso(sorted, e) ==
  IF sorted = <<>> THEN <<e>>
  ELSE IF IsoLessEq(Head(sorted).date, e.date)
       THEN <<Head(sorted)>> \o InsertByIso(Tail(sorted), e)
       ELSE <<e>> \o sorted

RECURSIVE SortByIso(_)
SortByIso(es) ==
  IF es = <<>> THEN <<>>
  ELSE InsertByIso(SortByIso(SubSeq(es, 1, Len(es) - 1)), es[Len(es)])

\* a map that keeps the entry it has for a date
SeenKeepFirst(seen, entry) ==
  IF \E i \in DOMAIN seen : seen[i].date = entry.date
  THEN seen
  ELSE Append(seen, entry)

\* seen.set(entry.date, entry): a key keeps its place, its value is replaced
SeenSet(seen, entry) ==
  IF \E i \in DOMAIN seen : seen[i].date = entry.date
  THEN [i \in DOMAIN seen |-> IF seen[i].date = entry.date THEN entry ELSE seen[i]]
  ELSE Append(seen, entry)

\* the loop that fills the map, and Array.from(seen.values())
RECURSIVE SeenValues(_)
SeenValues(es) ==
  IF es = <<>> THEN <<>>
  ELSE SeenSet(SeenValues(SubSeq(es, 1, Len(es) - 1)), es[Len(es)])

parseCSV(text) ==
  LET lines == SplitLines(text)
  IN  IF Len(lines) < 2 THEN <<>>
      ELSE SortByIso(SeenValues(SortByIso(PushEntries(DataLines(lines)))))

InitImport ==
  /\ raw \in SeqsOver(Lines, MaxRows)
  /\ special = NoSpecial
  /\ NoStore
  /\ entries = <<>>
  /\ waypoints = <<>>
  /\ segments = NoSegments
  /\ comparison = NoComparison
  /\ called = <<"none", 0>>
  /\ NoValues

ParseCSVCall ==
  /\ ret' = parseCSV(raw)
  /\ called' = <<"parseCSV", 0>>
  /\ UNCHANGED <<raw, special, xs, ys>>
  /\ StoreUnchanged
  /\ EngineUnchanged

SpecImport == InitImport /\ [][ParseCSVCall]_vars

(***************************************************************************)
(* The special functions, step by step: regularizedIncompleteBeta and      *)
(* logGamma.  special holds the place of the computation: the arguments    *)
(* of the calls of logGamma still to be made with the depth of the call    *)
(* at work, and the number of rounds of the continued fraction that have   *)
(* been made.  The values of the fraction are floating point numbers that  *)
(* are not computed: whether a round ends within 1e-10 of 1 is left open.  *)
(***************************************************************************)
MaxIterations == 200

\* the arguments given to the two functions
BetaX == {RZero, Rat(1, 4), Rat(1, 2), RInt(1)}
BetaAB == {Rat(1, 4), Rat(1, 2), RInt(1), Rat(3, 2)}
GammaX == {Rat(-3, 2), RInt(-1), RZero, Rat(1, 4), Rat(1, 2), RInt(1), RInt(2)}

InitSpecial ==
  /\ special = NoSpecial
  /\ NoStore
  /\ raw = <<>>
  /\ entries = <<>>
  /\ waypoints = <<>>
  /\ segments = NoSegments
  /\ comparison = NoComparison
  /\ called = <<"none", 0>>
  /\ NoValues

SpecialFrame ==
  /\ UNCHANGED <<raw, xs, ys, ret, called>>
  /\ StoreUnchanged
  /\ EngineUnchanged

\* x < 0.5
NeedsReflection(x) == RLt(x, Rat(1, 2))

\* a loop that starts at m = 0: rounds counts the rounds made
LoopContinuesFromZero(rounds) == rounds <= MaxIterations

\* m <= 200, with m = 1 at the start: rounds counts the rounds made
LoopContinues(rounds) == rounds + 1 <= MaxIterations

\* logGamma(x) is called from outside
LogGammaCall(x) ==
  /\ special.pc = "idle"
  /\ special' = [pc |-> "logGamma", op |-> "logGamma", args |-> <<x>>,
                  depth |-> 0, deepest |-> 0, rounds |-> 0]
  /\ SpecialFrame

\* regularizedIncompleteBeta(x, a, b) is called: it returns at once for x = 0
\* and x = 1 and else asks for logGamma(a) + logGamma(b) - logGamma(a + b)
RegularizedIncompleteBetaCall(x, a, b) ==
  /\ special.pc = "idle"
  /\ special' = IF x = RZero \/ x = RInt(1)
                 THEN [pc |-> "done", op |-> "beta", args |-> <<>>,
                       depth |-> 0, deepest |-> 0, rounds |-> 0]
                 ELSE [pc |-> "logGamma", op |-> "beta", args |-> <<a, b, RAdd(a, b)>>,
                       depth |-> 0, deepest |-> 0, rounds |-> 0]
  /\ SpecialFrame

\* the call of logGamma at work either calls logGamma(1 - x) or computes
\* its sum of 8 terms and returns, through the call that reflected if any
LogGammaStep ==
  /\ special.pc = "logGamma"
  /\ special.args # <<>>
  /\ special' =
       IF NeedsReflection(Head(special.args))
       THEN [special EXCEPT !.args = <<RSub(RInt(1), Head(special.args))>>
                                       \o Tail(special.args),
                            !.depth = special.depth + 1,
                            !.deepest = IF special.depth + 1 > special.deepest
                                        THEN special.depth + 1
                                        ELSE special.deepest]
       ELSE [special EXCEPT !.args = Tail(special.args), !.depth = 0]
  /\ SpecialFrame

\* all the calls of logGamma have returned: logGamma is done, and
\* regularizedIncompleteBeta enters its loop
LogGammaReturn ==
  /\ special.pc = "logGamma"
  /\ special.args = <<>>
  /\ special' = [special EXCEPT !.pc = IF special.op = "beta" THEN "loop" ELSE "done"]
  /\ SpecialFrame

\* a round of the loop; it breaks when delta is within 1e-10 of 1
BetaRound(converged) ==
  /\ special.pc = "loop"
  /\ LoopContinues(special.rounds)
  /\ special' = [special EXCEPT !.rounds = special.rounds + 1,
                               !.pc = IF converged THEN "done" ELSE "loop"]
  /\ SpecialFrame

\* the loop ends at its cap, and front * f is returned
BetaLoopEnd ==
  /\ special.pc = "loop"
  /\ ~ LoopContinues(special.rounds)
  /\ special' = [special EXCEPT !.pc = "done"]
  /\ SpecialFrame

SpecialNext ==
  \/ \E x \in GammaX : LogGammaCall(x)
  \/ \E x \in BetaX, a \in BetaAB, b \in BetaAB : RegularizedIncompleteBetaCall(x, a, b)
  \/ LogGammaStep
  \/ LogGammaReturn
  \/ \E converged \in BOOLEAN : BetaRound(converged)
  \/ BetaLoopEnd

\* a call that has begun goes on: the engine is not interrupted
SpecSpecial == InitSpecial /\ [][SpecialNext]_vars /\ WF_vars(SpecialNext)

(***************************************************************************)
(* Storage (src/src/storage.ts).  storage is the item of localStorage: no  *)
(* item, or the saved state.  saveState writes the state as JSON and       *)
(* loadState parses it; the states written here are arrays and records of  *)
(* strings and booleans, which JSON gives back as they were written.       *)
(* issued holds the ids generated so far (main.ts:263, 343: the time and   *)
(* a random suffix, so an id is never generated twice).                    *)
(***************************************************************************)
Ids == 1..MaxIds
StoreDates == {1, 2}
Colors == {"#f08068", "#56b4e9"}
\* the name of an uploaded file without its extension, and the names a
\* series can be given in the list
BaseNames == {"Data"}
Names == {"Data", "Rest"}

\* { series: [], waypoints: [], activeSeriesId: null }
EmptyState == [series |-> <<>>, waypoints |-> <<>>, activeSeriesId |-> NoId]

\* the state read from an item: the item is absent, or it was written by
\* saveState and has the fields series, waypoints and activeSeriesId (the
\* migration of an item without series is not taken)
loadState(item) == IF item = NoItem THEN EmptyState ELSE item

\* localStorage.setItem(STORAGE_KEY, JSON.stringify(state)), as the item
saveState(state) == state

\* array.findIndex(e => e.id === id), 0 for the source's -1 and k + 1 for k
RECURSIVE FindIndexFrom(_, _, _)
FindIndexFrom(array, id, k) ==
  IF k > Len(array) THEN 0
  ELSE IF array[k].id = id THEN k
  ELSE FindIndexFrom(array, id, k + 1)

FindIndex(array, id) == FindIndexFrom(array, id, 1)

\* array.filter(e => e.id !== id)
WithoutId(array, id) == SelectSeq(array, LAMBDA e : e.id # id)

getAllSeries(item) == loadState(item).series

addSeries(item, series) ==
  LET state == loadState(item)
  IN  saveState([state EXCEPT !.series = Append(@, series),
                              !.activeSeriesId = series.id])

\* a removal that leaves activeSeriesId as it is
removeSeriesOnly(item, id) ==
  LET state == loadState(item)
  IN  saveState([state EXCEPT !.series = WithoutId(@, id)])

removeSeries(item, id) ==
  LET state == loadState(item)
      rest  == WithoutId(state.series, id)
  IN  saveState([state EXCEPT
        !.series = rest,
        !.activeSeriesId = IF @ = id
                           THEN (IF Len(rest) > 0 THEN rest[1].id ELSE NoId)
                           ELSE @])

updateSeries(item, series) ==
  LET state == loadState(item)
      idx   == FindIndex(state.series, series.id)
  IN  saveState(IF idx >= 1 THEN [state EXCEPT !.series[idx] = series] ELSE state)

getActiveSeriesId(item) == loadState(item).activeSeriesId

setActiveSeriesId(item, id) ==
  saveState([loadState(item) EXCEPT !.activeSeriesId = id])

\* the name with " (n)" appended, for the first n >= 2 that is not taken
RECURSIVE NumberedName(_, _, _)
NumberedName(existing, baseName, n) ==
  LET name == baseName \o " (" \o ToString(n) \o ")"
  IN  IF name \in existing THEN NumberedName(existing, baseName, n + 1) ELSE name

deduplicateSeriesName(item, baseName) ==
  LET state    == loadState(item)
      existing == {state.series[k].name : k \in DOMAIN state.series}
  IN  IF baseName \notin existing THEN baseName
      ELSE NumberedName(existing, baseName, 2)

getWaypoints(item) == loadState(item).waypoints

addWaypoint(item, wp) ==
  LET state == loadState(item)
  IN  saveState([state EXCEPT !.waypoints = SortByDate(Append(@, wp))])

removeWaypoint(item, id) ==
  LET state == loadState(item)
  IN  saveState([state EXCEPT !.waypoints = WithoutId(@, id)])

\* an update that leaves the waypoint at its place in the list
updateWaypointInPlace(item, wp) ==
  LET state == loadState(item)
      idx   == FindIndex(state.waypoints, wp.id)
  IN  saveState(IF idx >= 1 THEN [state EXCEPT !.waypoints[idx] = wp] ELSE state)

updateWaypoint(item, wp) ==
  LET state == loadState(item)
      idx   == FindIndex(state.waypoints, wp.id)
  IN  saveState(IF idx >= 1
                THEN [state EXCEPT !.waypoints = SortByDate([@ EXCEPT ![idx] = wp])]
                ELSE state)

\* localStorage.removeItem(STORAGE_KEY), as the item
clearAll(item) == NoItem

\* the calls of storage leave the engine and the chart alone
StorageFrame ==
  /\ UNCHANGED <<raw, special, xs, ys, ret, chart>>
  /\ EngineUnchanged

InitStore ==
  /\ entries = <<>>
  /\ waypoints = <<>>
  /\ segments = NoSegments
  /\ comparison = NoComparison
  /\ called = <<"none", 0>>
  /\ NoApp
  /\ NoValues

\* a waypoint as the page makes it (main.ts:342-347): a new id, the date
\* and the color of the inputs and a label that is not empty
AddWaypointCall(id, date, color) ==
  /\ id \notin issued
  /\ issued' = issued \cup {id}
  /\ storage' = addWaypoint(storage, [id |-> id, date |-> date,
                                      label |-> Labels[id], color |-> color])
  /\ called' = <<"addWaypoint", id>>
  /\ StorageFrame

RemoveWaypointCall(id) ==
  /\ storage' = removeWaypoint(storage, id)
  /\ called' = <<"removeWaypoint", id>>
  /\ UNCHANGED issued
  /\ StorageFrame

UpdateWaypointCall(id, date, color) ==
  /\ storage' = updateWaypoint(storage, [id |-> id, date |-> date,
                                         label |-> Labels[id], color |-> color])
  /\ called' = <<"updateWaypoint", id>>
  /\ UNCHANGED issued
  /\ StorageFrame

ClearAllCall ==
  /\ storage' = clearAll(storage)
  /\ called' = <<"clearAll", 0>>
  /\ UNCHANGED issued
  /\ StorageFrame

SpecWaypointStore ==
  InitStore /\ [][\/ \E id \in Ids, date \in StoreDates, color \in Colors :
                        AddWaypointCall(id, date, color)
                  \/ \E id \in Ids : RemoveWaypointCall(id)
                  \/ \E id \in Ids, date \in StoreDates, color \in Colors :
                        UpdateWaypointCall(id, date, color)
                  \/ ClearAllCall]_vars

(***************************************************************************)
(* The chart (src/src/chart.ts) and the page that draws it                 *)
(* (src/src/main.ts).  chart.chartInstance is the module variable and      *)
(* chart.live the Chart objects that were made and not destroyed.  A Chart *)
(* object is known by its identity; the identity of a destroyed object may *)
(* be given to a new one.                                                  *)
(***************************************************************************)
ChartObjects == 1..MaxCharts

\* some identity is free for a new Chart object
CanMakeChart(ch) == ChartObjects \ ch.live # {}

\* new Chart(canvas, ...)
NewChart(ch) ==
  CHOOSE c \in ChartObjects \ ch.live : \A o \in ChartObjects \ ch.live : c <= o

\* if (chartInstance) { chartInstance.destroy(); chartInstance = null; }
destroyChart(ch) ==
  IF ch.chartInstance # NoId
  THEN [chartInstance |-> NoId, live |-> ch.live \ {ch.chartInstance}]
  ELSE ch

\* a render that forgets the old instance without destroying it
renderChartOverOld(ch, seriesList) ==
  LET visibleSeries == SelectSeq(seriesList, LAMBDA srs : srs.visible)
  IN  IF Len(visibleSeries) = 0 THEN [ch EXCEPT !.chartInstance = NoId]
      ELSE [chartInstance |-> NewChart(ch), live |-> ch.live \cup {NewChart(ch)}]

renderChart(ch, seriesList) ==
  LET cleared       == destroyChart(ch)
      visibleSeries == SelectSeq(seriesList, LAMBDA srs : srs.visible)
  IN  IF Len(visibleSeries) = 0 THEN cleared
      ELSE [chartInstance |-> NewChart(cleared),
            live          |-> cleared.live \cup {NewChart(cleared)}]

\* refresh, its storage: without an active id the first series becomes the
\* active one
RefreshStorage(item) ==
  LET seriesList == getAllSeries(item)
      activeId   == getActiveSeriesId(item)
  IN  IF activeId = NoId /\ Len(seriesList) > 0
      THEN setActiveSeriesId(item, seriesList[1].id)
      ELSE item

\* refresh, its chart: drawn when the active series is stored (a stored
\* series has measurements: handleCSVUpload returns on an empty import),
\* destroyed otherwise
RefreshChart(item, ch) ==
  LET seriesList == getAllSeries(item)
      activeId   == getActiveSeriesId(item)
  IN  IF FindIndex(seriesList, activeId) >= 1
      THEN renderChart(ch, seriesList)
      ELSE destroyChart(ch)

\* what a handler leaves: the storage written by the handler is read by
\* refresh
Refreshed(item) ==
  /\ storage' = RefreshStorage(item)
  /\ chart' = RefreshChart(RefreshStorage(item), chart)
  /\ CanMakeChart(chart)
  /\ UNCHANGED <<raw, special, xs, ys, ret>>
  /\ EngineUnchanged

HandleCSVUpload(id, baseName) ==
  /\ id \notin issued
  /\ issued' = issued \cup {id}
  /\ Refreshed(addSeries(storage, [id      |-> id,
                                    name    |-> deduplicateSeriesName(storage, baseName),
                                    visible |-> TRUE]))
  /\ called' = <<"addSeries", id>>

HandleSeriesRename(id, name) ==
  LET seriesList == getAllSeries(storage)
      idx        == FindIndex(seriesList, id)
  IN  /\ idx >= 1
      /\ Refreshed(updateSeries(storage, [seriesList[idx] EXCEPT !.name = name]))
      /\ called' = <<"updateSeries", id>>
      /\ UNCHANGED issued

\* the id is the one of a row of the series list, which shows the stored
\* series
HandleSetActive(id) ==
  /\ FindIndex(getAllSeries(storage), id) >= 1
  /\ Refreshed(setActiveSeriesId(storage, id))
  /\ called' = <<"setActiveSeriesId", id>>
  /\ UNCHANGED issued

HandleSeriesRemove(id) ==
  /\ FindIndex(getAllSeries(storage), id) >= 1
  /\ Refreshed(removeSeries(storage, id))
  /\ called' = <<"removeSeries", id>>
  /\ UNCHANGED issued

ClearClick ==
  /\ Refreshed(clearAll(storage))
  /\ called' = <<"clearAll", 0>>
  /\ UNCHANGED issued

\* renderChart called with the stored series, shown or hidden
RenderChartCall(hidden) ==
  /\ CanMakeChart(chart)
  /\ chart' = renderChart(chart, [k \in DOMAIN getAllSeries(storage) |->
                                   [getAllSeries(storage)[k] EXCEPT !.visible = ~ hidden]])
  /\ called' = <<"renderChart", IF hidden THEN 0 ELSE 1>>
  /\ UNCHANGED <<storage, issued, raw, special, xs, ys, ret>>
  /\ EngineUnchanged

DestroyChartCall ==
  /\ chart' = destroyChart(chart)
  /\ called' = <<"destroyChart", 0>>
  /\ UNCHANGED <<storage, issued, raw, special, xs, ys, ret>>
  /\ EngineUnchanged

SpecPage ==
  InitStore /\ [][\/ \E id \in Ids, baseName \in BaseNames : HandleCSVUpload(id, baseName)
                  \/ \E id \in Ids, name \in Names : HandleSeriesRename(id, name)
                  \/ \E id \in Ids : HandleSetActive(id)
                  \/ \E id \in Ids : HandleSeriesRemove(id)
                  \/ ClearClick
                  \/ \E hidden \in BOOLEAN : RenderChartCall(hidden)
                  \/ DestroyChartCall]_vars

(***************************************************************************)
(* A series with one waypoint, segmented and compared (main.ts: refresh    *)
(* calls buildSegments and computeWaypointComparison on the same series).  *)
(***************************************************************************)
InitAgreement ==
  /\ entries \in SeriesOver(SegScores, 1)
  /\ waypoints \in {l \in WaypointLists(1) : Len(l) = 1}
  /\ segments = NoSegments
  /\ comparison = NoComparison
  /\ called = <<"none", 0>>
  /\ NoApp
  /\ NoValues

SpecAgreement ==
  InitAgreement /\ [][\/ BuildSegmentsCall
                      \/ \E w \in DOMAIN waypoints : ComputeWaypointComparisonCall(w)]_vars

SpecSegments == InitSegments /\ [][BuildSegmentsCall]_vars

\* the comparison across the one waypoint there is, for every score
SpecComparison ==
  InitComparison /\ [][\E w \in DOMAIN waypoints : ComputeWaypointComparisonCall(w)]_vars

\* the comparison across one of several waypoints
SpecSplit ==
  InitSplit /\ [][\E w \in DOMAIN waypoints : ComputeWaypointComparisonCall(w)]_vars

(***************************************************************************)
(* Floating point.  A number of the source is an IEEE 754 double, and the  *)
(* sums, products, quotients and square roots of the source are rounded    *)
(* to the nearest double, ties to even.  Where the rounding decides the    *)
(* outcome the arithmetic is modelled as it is, on the double itself:      *)
(* [sgn, m, e] is the double sgn * m * 2^e with 2^52 <= m < 2^53, and zero *)
(* is [sgn |-> 0].  The integer m has 53 bits, so it is written as a       *)
(* natural number in base 2^15, lowest digit first (Big).  The doubles of  *)
(* the model stay within the normal range (no overflow to Infinity, no     *)
(* subnormal numbers), and the sign of zero is not kept.                   *)
(***************************************************************************)
Base == 2 ^ 15

\* the number of bits of the natural number n
RECURSIVE BitsOf(_)
BitsOf(n) == IF n = 0 THEN 0 ELSE 1 + BitsOf(n \div 2)

\* the number of bits of a digit
DigitBits == BitsOf(Base - 1)

\* the natural number n in base 2^15
RECURSIVE BigOf(_)
BigOf(n) == IF n = 0 THEN <<>> ELSE <<n % Base>> \o BigOf(n \div Base)

\* without its leading zero digits
RECURSIVE BigTrim(_)
BigTrim(a) ==
  IF a = <<>> THEN a
  ELSE IF a[Len(a)] = 0 THEN BigTrim(SubSeq(a, 1, Len(a) - 1))
  ELSE a

DigitAt(a, k) == IF k \in DOMAIN a THEN a[k] ELSE 0

RECURSIVE BigAddFrom(_, _, _, _)
BigAddFrom(a, b, k, carry) ==
  IF k > Len(a) /\ k > Len(b)
  THEN (IF carry = 0 THEN <<>> ELSE <<carry>>)
  ELSE LET t == DigitAt(a, k) + DigitAt(b, k) + carry
       IN  <<t % Base>> \o BigAddFrom(a, b, k + 1, t \div Base)

BigAdd(a, b) == BigAddFrom(a, b, 1, 0)

\* a - b for a >= b
RECURSIVE BigSubFrom(_, _, _, _)
BigSubFrom(a, b, k, borrow) ==
  IF k > Len(a) THEN <<>>
  ELSE LET t == DigitAt(a, k) - DigitAt(b, k) - borrow
       IN  IF t < 0
           THEN <<t + Base>> \o BigSubFrom(a, b, k + 1, 1)
           ELSE <<t>> \o BigSubFrom(a, b, k + 1, 0)

BigSub(a, b) == BigTrim(BigSubFrom(a, b, 1, 0))

\* -1, 0 or 1 as a < b, a = b or a > b, from digit k down
RECURSIVE BigCmpFrom(_, _, _)
BigCmpFrom(a, b, k) ==
  IF k = 0 THEN 0
  ELSE IF a[k] < b[k] THEN -1
  ELSE IF a[k] > b[k] THEN 1
  ELSE BigCmpFrom(a, b, k - 1)

BigCmp(a, b) ==
  IF Len(a) < Len(b) THEN -1
  ELSE IF Len(a) > Len(b) THEN 1
  ELSE BigCmpFrom(a, b, Len(a))

\* a * d for a digit d
RECURSIVE BigTimesDigitFrom(_, _, _, _)
BigTimesDigitFrom(a, d, k, carry) ==
  IF k > Len(a) THEN (IF carry = 0 THEN <<>> ELSE <<carry>>)
  ELSE LET t == a[k] * d + carry
       IN  <<t % Base>> \o BigTimesDigitFrom(a, d, k + 1, t \div Base)

BigTimesDigit(a, d) == IF d = 0 THEN <<>> ELSE BigTimesDigitFrom(a, d, 1, 0)

RECURSIVE BigMulFrom(_, _, _)
BigMulFrom(a, b, k) ==
  IF k > Len(b) THEN <<>>
  ELSE BigAdd(BigTimesDigit(a, b[k]), BigTrim(<<0>> \o BigMulFrom(a, b, k + 1)))

BigMul(a, b) == IF a = <<>> THEN <<>> ELSE BigMulFrom(a, b, 1)

RECURSIVE Zeros(_)
Zeros(k) == IF k = 0 THEN <<>> ELSE <<0>> \o Zeros(k - 1)

\* a * 2^n
BigShl(a, n) ==
  IF a = <<>> THEN <<>>
  ELSE Zeros(n \div DigitBits) \o BigTimesDigit(a, 2 ^ (n % DigitBits))

\* the quotient by d of the digits of a above the lowest low, from digit k
\* down with remainder r
RECURSIVE BigOverDigitFrom(_, _, _, _, _)
BigOverDigitFrom(a, d, k, r, low) ==
  IF k = low THEN <<>>
  ELSE BigOverDigitFrom(a, d, k - 1, (r * Base + a[k]) % d, low)
         \o <<(r * Base + a[k]) \div d>>

\* floor(a / 2^n)
BigShr(a, n) ==
  IF n \div DigitBits >= Len(a) THEN <<>>
  ELSE BigTrim(BigOverDigitFrom(a, 2 ^ (n % DigitBits), Len(a), 0, n \div DigitBits))

\* the number of bits of a
BigBits(a) == IF a = <<>> THEN 0 ELSE DigitBits * (Len(a) - 1) + BitsOf(a[Len(a)])

\* the element of a set of one element.  TheOne({F(v) : v \in {e}}) is F(e)
\* with e evaluated once, before F
TheOne(S) == CHOOSE s \in S : TRUE

\* the largest digit d with d * t <= r, from an estimate of it down
RECURSIVE BigDigitFrom(_, _, _)
BigDigitFrom(r, t, d) ==
  IF BigCmp(BigTimesDigit(t, d), r) <= 0 THEN d ELSE BigDigitFrom(r, t, d - 1)

DigitAtMost(d) == IF d < Base THEN d ELSE Base - 1

\* an estimate of the digit of r / b at place j from the two leading digits
\* of r and the leading digit of b: never below the digit, and at most 2
\* above it when the leading digit of b has all its bits
BigDigitGuess(r, b, j) ==
  DigitAtMost((DigitAt(r, Len(b) + j + 1) * Base + DigitAt(r, Len(b) + j)) \div b[Len(b)])

\* quotient and remainder of r by b, the quotient digits from place j down,
\* for r < b * Base^(j+1)
RECURSIVE BigDivFrom(_, _, _)

\* the digit d at place j before the quotient and remainder qr of the rest
BigDivJoin(j, d, qr) == <<BigTrim(qr[1] \o Zeros(j - Len(qr[1])) \o <<d>>), qr[2]>>

BigDivBelow(rest, b, j, d) ==
  TheOne({BigDivJoin(j, d, qr) : qr \in {BigDivFrom(rest, b, j - 1)}})

\* the digit at place j is d
BigDivRest(r, b, j, d) ==
  TheOne({BigDivBelow(rest, b, j, d) :
            rest \in {BigSub(r, BigTimesDigit(Zeros(j) \o b, d))}})

BigDivFrom(r, b, j) ==
  IF j < 0 THEN <<<<>>, r>>
  ELSE TheOne({BigDivRest(r, b, j, d) :
                 d \in {BigDigitFrom(r, Zeros(j) \o b, BigDigitGuess(r, b, j))}})

\* the bits the leading digit of b lacks
BitsToNormal(b) == DigitBits - BitsOf(b[Len(b)])

\* quotient and remainder, from those of a * 2^s by b * 2^s
BigDivUnscaled(qr, s) == <<qr[1], BigShr(qr[2], s)>>

BigDivScaled(a, b, s) ==
  TheOne({BigDivUnscaled(qr, s) : qr \in {BigDivFrom(a, b, Len(a) - Len(b))}})

\* for b > 0
BigDivMod(a, b) ==
  TheOne({BigDivScaled(u, v, BitsToNormal(b)) :
            u \in {BigShl(a, BitsToNormal(b))}, v \in {BigShl(b, BitsToNormal(b))}})

\* the largest r with r * r <= n, from an r that is not below it: the mean
\* of r and n / r is nearer, until it no longer is less than r
RECURSIVE BigSqrtFrom(_, _)

BigSqrtNext(n, r, t) == IF BigCmp(t, r) >= 0 THEN r ELSE BigSqrtFrom(n, t)

BigSqrtFrom(n, r) ==
  TheOne({BigSqrtNext(n, r, t) : t \in {BigShr(BigAdd(r, BigDivMod(n, r)[1]), 1)}})

BigSqrt(n) ==
  IF n = <<>> THEN <<>> ELSE BigSqrtFrom(n, BigShl(<<1>>, (BigBits(n) + 1) \div 2))

\* a^k, by squaring
RECURSIVE BigPow(_, _)
BigPow(a, k) ==
  IF k = 0 THEN <<1>>
  ELSE IF k % 2 = 1 THEN BigMul(a, BigPow(a, k - 1))
  ELSE TheOne({BigMul(h, h) : h \in {BigPow(a, k \div 2)}})

\* the 52 bits of the fraction and the leading 1
MantissaBits == 52 + 1

FZero == [sgn |-> 0, m |-> <<>>, e |-> 0]

\* sgn * r * 2^e for r of at most 54 bits: 2^53 is 2^52 with one more
\* factor 2
Normalised(sgn, r, e) ==
  IF BigBits(r) > MantissaBits
  THEN [sgn |-> sgn, m |-> BigShr(r, 1), e |-> e + 1]
  ELSE [sgn |-> sgn, m |-> r, e |-> e]

\* q + 1 or q, as the rest is more than half, or half with q odd or with
\* something beyond the rest
RoundedUp(q, half, inexact) ==
  IF half > 0 \/ (half = 0 /\ (inexact \/ q[1] % 2 = 1)) THEN BigAdd(q, <<1>>) ELSE q

\* n without its k lowest bits, which are q, rounded
RoundedAt(sgn, n, e, inexact, k, q) ==
  Normalised(sgn,
             RoundedUp(q, BigCmp(BigSub(n, BigShl(q, k)), BigShl(<<1>>, k - 1)), inexact),
             e + k)

\* n of len bits, to MantissaBits bits
RoundedFrom(sgn, n, e, inexact, len) ==
  IF len <= MantissaBits
  THEN [sgn |-> sgn, m |-> BigShl(n, MantissaBits - len), e |-> e - (MantissaBits - len)]
  ELSE RoundedAt(sgn, n, e, inexact, len - MantissaBits, BigShr(n, len - MantissaBits))

\* the double nearest to sgn * (n + s) * 2^e, ties to even, where s is 0 or,
\* for inexact, some number strictly between 0 and 1
RoundToDouble(sgn, n, e, inexact) ==
  IF n = <<>> THEN FZero ELSE RoundedFrom(sgn, n, e, inexact, BigBits(n))

\* the double of an integer
FInt(n) == RoundToDouble(IF n < 0 THEN -1 ELSE 1, BigOf(IF n < 0 THEN -n ELSE n), 0, FALSE)

\* sgn * (the quotient qr[1], with something beyond it when the remainder
\* qr[2] is not 0) * 2^e
QuotientRounded(sgn, qr, e) == RoundToDouble(sgn, qr[1], e, qr[2] # <<>>)

\* the double nearest to p / q, from the quotient of p * 2^k by q
RatioShifted(p, q, k) == QuotientRounded(1, BigDivMod(BigShl(p, k), q), -k)

\* the double nearest to p / q: the quotient is given 56 bits or more
FRatio(p, q) ==
  RatioShifted(p, q, IF 56 + BigBits(q) > BigBits(p)
                     THEN 56 + BigBits(q) - BigBits(p)
                     ELSE 0)

\* the double a decimal text n * 10^-k has: parseFloat and the literals
FDecimal(n, k) == FRatio(BigOf(n), BigPow(BigOf(10), k))

FNeg(x) == [x EXCEPT !.sgn = -x.sgn]

\* Math.abs(x)
FAbs(x) == [x EXCEPT !.sgn = IF x.sgn = 0 THEN 0 ELSE 1]

\* -1, 0 or 1 as |x| < |y|, |x| = |y| or |x| > |y|
FCmpAbs(x, y) ==
  IF x.sgn = 0 \/ y.sgn = 0
  THEN (IF x.sgn = y.sgn THEN 0 ELSE IF x.sgn = 0 THEN -1 ELSE 1)
  ELSE IF x.e < y.e THEN -1
  ELSE IF x.e > y.e THEN 1
  ELSE BigCmp(x.m, y.m)

\* x < y
FLtOf(x, y) ==
  IF x.sgn # y.sgn THEN x.sgn < y.sgn
  ELSE IF x.sgn = 1 THEN FCmpAbs(x, y) < 0
  ELSE IF x.sgn = -1 THEN FCmpAbs(x, y) > 0
  ELSE FALSE

FLt(x, y) == TheOne({FLtOf(u, v) : u \in {x}, v \in {y}})

\* a * 2^e of sign sa less sm * 2^e of the other sign, for c the order of
\* a and sm
AddOpposite(sa, a, sm, e, c) ==
  IF c = 0 THEN FZero
  ELSE IF c > 0 THEN RoundToDouble(sa, BigSub(a, sm), e, FALSE)
  ELSE RoundToDouble(-sa, BigSub(sm, a), e, FALSE)

\* sa * a * 2^e + ss * sm * 2^e
AddAligned(sa, a, ss, sm, e) ==
  IF sa = ss THEN RoundToDouble(sa, BigAdd(a, sm), e, FALSE)
  ELSE AddOpposite(sa, a, sm, e, BigCmp(a, sm))

\* big + small for big.e >= small.e: a small of more than 64 bits less
\* does not reach the rounding
AddOrdered(big, small) ==
  IF big.e - small.e > 64 THEN big
  ELSE AddAligned(big.sgn, BigShl(big.m, big.e - small.e), small.sgn, small.m, small.e)

\* x + y
FAddOf(x, y) ==
  IF x.sgn = 0 THEN y
  ELSE IF y.sgn = 0 THEN x
  ELSE IF x.e >= y.e THEN AddOrdered(x, y)
  ELSE AddOrdered(y, x)

FAdd(x, y) == TheOne({FAddOf(u, v) : u \in {x}, v \in {y}})

\* x - y
FSub(x, y) == FAdd(x, FNeg(y))

\* x * y
FMulOf(x, y) ==
  IF x.sgn = 0 \/ y.sgn = 0 THEN FZero
  ELSE RoundToDouble(x.sgn * y.sgn, BigMul(x.m, y.m), x.e + y.e, FALSE)

FMul(x, y) == TheOne({FMulOf(u, v) : u \in {x}, v \in {y}})

\* x / y for y # 0
FDivOf(x, y) ==
  IF x.sgn = 0 THEN FZero
  ELSE QuotientRounded(x.sgn * y.sgn, BigDivMod(BigShl(x.m, 56), y.m), x.e - y.e - 56)

FDiv(x, y) == TheOne({FDivOf(u, v) : u \in {x}, v \in {y}})

\* the root r of n, with something beyond it when r * r is not n
RootRounded(n, r, e) == RoundToDouble(1, r, e, BigMul(r, r) # n)

\* Math.sqrt(x) for x >= 0: the root of m * 2^56 with an even exponent
FSqrtOf(x) ==
  IF x.sgn = 0 THEN FZero
  ELSE RootRounded(BigShl(x.m, 56 + (x.e % 2)), BigSqrt(BigShl(x.m, 56 + (x.e % 2))),
                   (x.e - (x.e % 2) - 56) \div 2)

FSqrt(x) == TheOne({FSqrtOf(u) : u \in {x}})

(***************************************************************************)
(* The two-sample functions on doubles.  parseFloat gives a score such as  *)
(* 0.1 the nearest double, and the sums and quotients of mean and variance *)
(* are rounded, so a mean of equal scores need not be the score.  before   *)
(* and after of computeWaypointComparison are xs and ys here, as doubles.  *)
(* A value that is used more than once is the parameter of a definition.   *)
(***************************************************************************)
\* the scores of the two levels: parseFloat("0.1") and parseFloat("50")
LevelScores == {FDecimal(1, 1), FInt(50)}

\* values.reduce((s, v) => s + v, 0) from the k-th value on
RECURSIVE ReduceSum(_, _, _)
ReduceSum(values, k, s) ==
  IF k > Len(values) THEN s ELSE ReduceSum(values, k + 1, FAdd(s, values[k]))

meanOfDoubles(values) ==
  IF Len(values) = 0 THEN FZero
  ELSE FDiv(ReduceSum(values, 1, FZero), FInt(Len(values)))

\* v ** 2: the product of v with itself, rounded
SquareOf(v) == FMul(v, v)

\* values.reduce((s, v) => s + (v - m) ** 2, 0) from the k-th value on
RECURSIVE ReduceSquares(_, _, _, _)
ReduceSquares(values, m, k, s) ==
  IF k > Len(values) THEN s
  ELSE ReduceSquares(values, m, k + 1, FAdd(s, SquareOf(FSub(values[k], m))))

varianceOfDoubles(values) ==
  IF Len(values) < 2 THEN FZero
  ELSE FDiv(ReduceSquares(values, meanOfDoubles(values), 1, FZero),
            FInt(Len(values) - 1))

\* the p-value of a proper test is 2 * tDistPValue(|t|, df): it is kept as
\* the pair that determines it
TwoTailedOfDoubles(t, df) == [exact |-> FALSE, t |-> FAbs(t), df |-> df]

\* the test from se on: perA is varA / nA and perB is varB / nB
WelchOfError(meanA, meanB, perA, perB, nA, nB, seSq, se) ==
  IF se = FZero THEN PValue(FInt(1))
  ELSE TwoTailedOfDoubles(FDiv(FSub(meanA, meanB), se),
                          FDiv(SquareOf(seSq),
                               FAdd(FDiv(SquareOf(perA), FInt(nA - 1)),
                                    FDiv(SquareOf(perB), FInt(nB - 1)))))

\* se = Math.sqrt(varA / nA + varB / nB)
WelchOfSum(meanA, meanB, perA, perB, nA, nB, seSq) ==
  WelchOfError(meanA, meanB, perA, perB, nA, nB, seSq, FSqrt(seSq))

WelchOfMoments(meanA, meanB, perA, perB, nA, nB) ==
  WelchOfSum(meanA, meanB, perA, perB, nA, nB, FAdd(perA, perB))

welchTTestOfDoubles(a, b) ==
  IF Len(a) < 2 \/ Len(b) < 2 THEN PValue(FInt(1))
  ELSE WelchOfMoments(meanOfDoubles(a), meanOfDoubles(b),
                      FDiv(varianceOfDoubles(a), FInt(Len(a))),
                      FDiv(varianceOfDoubles(b), FInt(Len(b))),
                      Len(a), Len(b))

\* Math.sqrt(((nA - 1) * varA + (nB - 1) * varB) / (nA + nB - 2))
PooledSDOfDoubles(a, b) ==
  FSqrt(FDiv(FAdd(FMul(FInt(Len(a) - 1), varianceOfDoubles(a)),
                  FMul(FInt(Len(b) - 1), varianceOfDoubles(b))),
             FInt(Len(a) + Len(b) - 2)))

\* if (pooledSD === 0) return 0; return (meanA - meanB) / pooledSD
CohenOfPooled(meanA, meanB, pooledSD) ==
  IF pooledSD = FZero THEN FZero ELSE FDiv(FSub(meanA, meanB), pooledSD)

cohensDOfDoubles(a, b) ==
  IF Len(a) < 2 \/ Len(b) < 2 THEN FZero
  ELSE CohenOfPooled(meanOfDoubles(a), meanOfDoubles(b), PooledSDOfDoubles(a, b))

\* 0.2, 0.5 and 0.8
SmallFrom == FDecimal(2, 1)
MediumFrom == FDecimal(5, 1)
LargeFrom == FDecimal(8, 1)

LabelOfMagnitude(abs) ==
  IF FLt(abs, SmallFrom) THEN "negligible"
  ELSE IF FLt(abs, MediumFrom) THEN "small"
  ELSE IF FLt(abs, LargeFrom) THEN "medium"
  ELSE "large"

effectSizeLabelOfDouble(d) == LabelOfMagnitude(FAbs(d))

\* 0.001, 0.01, 0.05 and 0.1
HighlyBelow == FDecimal(1, 3)
VeryBelow == FDecimal(1, 2)
SignificantBelow == FDecimal(5, 2)
MarginallyBelow == FDecimal(1, 1)

\* the label of a p-value that is kept as its pair is kept as the p-value
significanceLabelOfDouble(p) ==
  IF ~ p.exact THEN [labelOf |-> p]
  ELSE IF FLt(p.value, HighlyBelow) THEN "highly significant"
  ELSE IF FLt(p.value, VeryBelow) THEN "very significant"
  ELSE IF FLt(p.value, SignificantBelow) THEN "significant"
  ELSE IF FLt(p.value, MarginallyBelow) THEN "marginally significant"
  ELSE "not significant"

\* computeWaypointComparison from its before and after scores on: null for
\* a side of fewer than 2, else the difference of the means and the test
ComparisonOfTests(delta, pValue, d) ==
  [deltaMean         |-> delta,
   tTestPValue       |-> pValue,
   cohensD           |-> d,
   significanceLabel |-> significanceLabelOfDouble(pValue),
   effectSizeLabel   |-> effectSizeLabelOfDouble(d)]

comparisonOfDoubles(before, after) ==
  IF Len(before) < 2 \/ Len(after) < 2 THEN Null
  ELSE ComparisonOfTests(FSub(meanOfDoubles(after), meanOfDoubles(before)),
                         welchTTestOfDoubles(before, after),
                         cohensDOfDoubles(before, after))

InitDoubles ==
  /\ xs \in SeqsOver(LevelScores, MaxGroup)
  /\ ys \in SeqsOver(LevelScores, MaxGroup)
  /\ ret = NoReturn
  /\ stats = NoStats
  /\ entries = <<>>
  /\ waypoints = <<>>
  /\ segments = NoSegments
  /\ comparison = NoComparison
  /\ called = <<"none", 0>>
  /\ NoApp

ComparisonOfDoublesCall ==
  /\ ret' = comparisonOfDoubles(xs, ys)
  /\ called' = <<"computeWaypointComparison", 0>>
  /\ AppUnchanged
  /\ UNCHANGED <<xs, ys>>
  /\ EngineUnchanged

SpecDoubles == InitDoubles /\ [][ComparisonOfDoublesCall]_vars

(***************************************************************************)
(* regularizedIncompleteBeta on doubles, round by round.  The arguments    *)
(* are x = k / 2^n and whole a and b, so that every value of the continued *)
(* fraction is a sum, product or quotient of doubles, modelled as it is    *)
(* rounded.  front is Math.exp of a sum of logarithms and of logGamma,     *)
(* which the engine computes to about the last digits only: for whole a    *)
(* and b it is x^a (1-x)^b (a+b-1)! / ((a-1)! (b-1)! a), and the model     *)
(* lets it be the nearest double of that number or of that number moved by *)
(* FrontSlack either way; front * f goes up and down with front, so the    *)
(* three cover what the engine can return.  special holds the call at      *)
(* work, and ret the values returned: first of I_x(a, b), then of          *)
(* I_{1-x}(b, a).                                                          *)
(***************************************************************************)
\* x = k / 2^XBits for k of XNumerators: near 0, 1/2 and near 1; a and b of
\* WholeAB
XNumerators == {1, 2 ^ (XBits - 1), 2 ^ XBits - 1}
WholeAB == {1, 2, 6}

\* the relative errors of front the model lets through: none, and
\* 2^-SlackBits either way
FrontSlack == {-1, 0, 1}

FOne == FInt(1)
\* 1e-30, the least magnitude of c and d
Tiny == FDecimal(1, 30)
\* 1e-10, the tolerance of the break
Tolerance == FDecimal(1, 10)

RECURSIVE BigFactorial(_)
BigFactorial(n) == IF n = 0 THEN <<1>> ELSE BigMul(BigOf(n), BigFactorial(n - 1))

\* Math.exp(Math.log(x) * a + Math.log(1 - x) * b - lnBeta) / a for
\* x = k / 2^XBits, as the engine can compute it
FrontOf(k, a, b, slack) ==
  LET p == BigMul(BigMul(BigPow(BigOf(k), a), BigPow(BigOf(2 ^ XBits - k), b)),
                  BigFactorial(a + b - 1))
      q == BigMul(BigShl(<<1>>, XBits * (a + b)),
                  BigMul(BigMul(BigFactorial(a - 1), BigFactorial(b - 1)), BigOf(a)))
      s == BigShl(<<1>>, SlackBits)
      t == IF slack = 1 THEN BigAdd(s, <<1>>)
           ELSE IF slack = -1 THEN BigSub(s, <<1>>)
           ELSE s
  IN  FRatio(BigMul(p, t), BigMul(q, s))

\* if (Math.abs(v) < 1e-30) v = 1e-30
AtLeastTiny(v) == IF FLt(FAbs(v), Tiny) THEN Tiny ELSE v

\* the state of the call as it enters the loop: m = 1, c = 1, f = d
LoopFrom(k, a, b, x, front, d) ==
  [pc |-> "loop", k |-> k, x |-> x, a |-> a, b |-> b, front |-> front, m |-> 1,
   f |-> d, c |-> FOne, d |-> d]

\* x = 0 and x = 1 return at once, else d = 1 / (1 - (a + b) * x / (a + 1))
BeforeLoopAt(k, a, b, slack, x) ==
  IF x = FZero THEN [pc |-> "return", value |-> FZero]
  ELSE IF x = FOne THEN [pc |-> "return", value |-> FOne]
  ELSE LoopFrom(k, a, b, x, FrontOf(k, a, b, slack),
                FDiv(FOne, AtLeastTiny(FSub(FOne, FDiv(FMul(FInt(a + b), x),
                                                      FInt(a + 1))))))

\* regularizedIncompleteBeta(k / 2^XBits, a, b) up to its loop
BeforeLoop(k, a, b, slack) ==
  BeforeLoopAt(k, a, b, slack, FRatio(BigOf(k), BigShl(<<1>>, XBits)))

\* m * (b - m) * x / ((a + 2 * m - 1) * (a + 2 * m)): the whole numbers are
\* doubles without rounding
EvenNumerator(s) ==
  FDiv(FMul(FInt(s.m * (s.b - s.m)), s.x),
       FInt((s.a + 2 * s.m - 1) * (s.a + 2 * s.m)))

\* -(a + m) * (a + b + m) * x / ((a + 2 * m) * (a + 2 * m + 1))
OddNumerator(s) ==
  FDiv(FMul(FInt((-(s.a + s.m)) * (s.a + s.b + s.m)), s.x),
       FInt((s.a + 2 * s.m) * (s.a + 2 * s.m + 1)))

\* Math.abs(delta - 1) < 1e-10
Breaks(delta) == FLt(FAbs(FSub(delta, FOne)), Tolerance)

\* f *= delta, and break or m++
RoundEnd(s, f, c, d, delta) ==
  [s EXCEPT !.f = FMul(f, delta), !.c = c, !.d = d,
            !.pc = IF Breaks(delta) THEN "break" ELSE "loop",
            !.m = IF Breaks(delta) THEN s.m ELSE s.m + 1]

\* the odd step from c and d on: delta = c * d
OddStepEnd(s, f, c, d) == RoundEnd(s, f, c, d, FMul(c, d))

\* the odd step: d = 1 + numerator * d, c = 1 + numerator / c, each at least
\* 1e-30 in magnitude, d = 1 / d
OddStep(s, f, c, d, numerator) ==
  OddStepEnd(s, f,
             AtLeastTiny(FAdd(FOne, FDiv(numerator, c))),
             FDiv(FOne, AtLeastTiny(FAdd(FOne, FMul(numerator, d)))))

\* the even step from c and d on: f *= c * d
EvenStepEnd(s, c, d) == OddStep(s, FMul(s.f, FMul(c, d)), c, d, OddNumerator(s))

\* the even step: d = 1 + numerator * d, c = 1 + numerator / c, each at
\* least 1e-30 in magnitude, d = 1 / d
EvenStep(s, numerator) ==
  EvenStepEnd(s,
              AtLeastTiny(FAdd(FOne, FDiv(numerator, s.c))),
              FDiv(FOne, AtLeastTiny(FAdd(FOne, FMul(numerator, s.d)))))

\* the body of the loop for m = s.m
RoundOf(s) == EvenStep(s, EvenNumerator(s))

InitLentz ==
  /\ special = NoSpecial
  /\ NoStore
  /\ raw = <<>>
  /\ entries = <<>>
  /\ waypoints = <<>>
  /\ segments = NoSegments
  /\ comparison = NoComparison
  /\ called = <<"none", 0>>
  /\ NoValues

\* regularizedIncompleteBeta(x, a, b) is called for x = k / 2^XBits
BetaOfDoublesCall(k, a, b, slack) ==
  /\ special.pc = "idle"
  /\ ret = NoReturn
  /\ special' = BeforeLoop(k, a, b, slack)
  /\ called' = <<"regularizedIncompleteBeta", <<k, a, b>>>>
  /\ UNCHANGED <<raw, xs, ys, ret>>
  /\ StoreUnchanged
  /\ EngineUnchanged

\* a round of the loop
LentzRound ==
  /\ special.pc = "loop"
  /\ special.m <= MaxIterations
  /\ special' = RoundOf(special)
  /\ SpecialFrame

\* after the break, or after the last round: return front * f
LentzReturn ==
  /\ \/ special.pc = "break"
     \/ special.pc = "loop" /\ special.m > MaxIterations
  /\ special' = [pc |-> "return", value |-> FMul(special.front, special.f)]
  /\ SpecialFrame

\* the value is taken, and after the first of the two calls
\* regularizedIncompleteBeta(1 - x, b, a) is called
ReflectedCall(slack) ==
  /\ special.pc = "return"
  /\ ret' = Append(ret, special.value)
  /\ special' = IF Len(ret) = 0
                 THEN BeforeLoop(2 ^ XBits - called[2][1], called[2][3], called[2][2],
                                 slack)
                 ELSE [pc |-> "done"]
  /\ UNCHANGED <<raw, xs, ys, called>>
  /\ StoreUnchanged
  /\ EngineUnchanged

LentzNext ==
  \/ \E k \in XNumerators, a \in WholeAB, b \in WholeAB, slack \in FrontSlack :
       BetaOfDoublesCall(k, a, b, slack)
  \/ LentzRound
  \/ LentzReturn
  \/ \E slack \in FrontSlack : ReflectedCall(slack)

SpecLentz == InitLentz /\ [][LentzNext]_vars

(***************************************************************************)
(* What the specification says of a segmentation, stated on the inputs.    *)
(***************************************************************************)
NumWps == Len(waypoints)

\* position of waypoint j in the ascending order by date, ties in input order
StableRank(j) ==
  1 + Cardinality({k \in 1..NumWps :
        \/ waypoints[k].date < waypoints[j].date
        \/ waypoints[k].date = waypoints[j].date /\ k < j})

\* the m-th waypoint of that order
Marker(m) == waypoints[CHOOSE j \in 1..NumWps : StableRank(j) = m]

\* boundary pair i of 0..NumWps covers date d (at least one waypoint)
Covers(i, d) ==
  /\ i = 0 \/ d >= Marker(i).date
  /\ i = NumWps \/ d < Marker(i + 1).date

\* the label the specification gives the segment of pair i
SpecLabel(i) ==
  IF i = 0 THEN "Before " \o Marker(1).label
  ELSE IF i = NumWps THEN "After " \o Marker(NumWps).label
  ELSE Marker(i).label \o " to " \o Marker(i + 1).label

Segmented == called[1] = "buildSegments"

\* the places <<segment, position>> of the result that hold measurement e
PlacesOf(e) ==
  {p \in {<<s, j>> : s \in DOMAIN segments, j \in 1..MaxDate} :
     p[2] \in DOMAIN segments[p[1]].entries /\ segments[p[1]].entries[p[2]] = e}

\* C1: the segments returned by buildSegments hold every measurement of the
\* series exactly once and nothing else, for any waypoint list, the empty
\* one included
C1_Partition ==
  Segmented =>
    /\ \A x \in DOMAIN entries : Cardinality(PlacesOf(entries[x])) = 1
    /\ \A s \in DOMAIN segments : \A j \in DOMAIN segments[s].entries :
         \E x \in DOMAIN entries : entries[x] = segments[s].entries[j]

\* C2: without waypoints a non-empty series of any length gives the one
\* segment "All Data" with the whole series and its first and last date
C2_AllData ==
  (Segmented /\ NumWps = 0 /\ Len(entries) > 0) =>
    segments = <<[label     |-> "All Data",
                  startDate |-> entries[1].date,
                  endDate   |-> entries[Len(entries)].date,
                  entries   |-> entries]>>

\* C3: a measurement dated on a waypoint's date D is in the segment that
\* starts at D: the pairs ending at a waypoint hold no date >= D, no segment
\* holds dates on both sides of D, and the measurement dated D is the first
\* of its segment
C3_MarkerDateStartsSegment ==
  (Segmented /\ NumWps >= 1 /\ Len(entries) > 0) =>
    LET sortedWps  == SortByDate(waypoints)
        boundaries == Boundaries(entries, sortedWps)
    IN  /\ \A i \in 0..(NumWps - 1) :
             LET segEntries == SegEntries(entries, boundaries, i)
             IN  \A j \in DOMAIN segEntries :
                   segEntries[j].date < Marker(i + 1).date
        /\ \A m \in 1..NumWps : \A s \in DOMAIN segments :
             LET es == segments[s].entries
             IN  /\ ~ \E a, b \in DOMAIN es :
                        es[a].date < Marker(m).date /\ es[b].date >= Marker(m).date
                 /\ \A a \in DOMAIN es : es[a].date = Marker(m).date => a = 1
        /\ \A m \in 1..NumWps : \A x \in DOMAIN entries :
             entries[x].date = Marker(m).date =>
               \E s \in DOMAIN segments :
                 /\ segments[s].entries[1] = entries[x]
                 /\ segments[s].startDate = Marker(m).date

\* a waypoint on the date of a measurement that has measurements before it
C3_Witness ==
  /\ Segmented
  /\ Len(segments) >= 2
  /\ \E m \in 1..NumWps : \E x \in DOMAIN entries :
       /\ x > 1
       /\ entries[x].date = waypoints[m].date
       /\ \E s \in DOMAIN segments : segments[s].entries[1] = entries[x]

\* C4: the segments are in chronological order and do not overlap, and the
\* measurements of a segment keep the order of the series
C4_Chronological ==
  Segmented =>
    /\ \A s, t \in DOMAIN segments : s < t =>
         \A a \in DOMAIN segments[s].entries : \A b \in DOMAIN segments[t].entries :
           segments[s].entries[a].date < segments[t].entries[b].date
    /\ \A s \in DOMAIN segments : \A a, b \in DOMAIN segments[s].entries :
         a < b => segments[s].entries[a].date < segments[s].entries[b].date

C4_Witness ==
  /\ Segmented
  /\ Len(segments) >= 3
  /\ \E s \in DOMAIN segments : Len(segments[s].entries) >= 2

\* C5: no returned segment is empty; a pair that covers no measurement gives
\* no segment; an empty series gives no segment
C5_NoEmptySegment ==
  Segmented =>
    /\ \A s \in DOMAIN segments : Len(segments[s].entries) > 0
    /\ Len(entries) = 0 => segments = <<>>
    /\ (NumWps >= 1 /\ Len(entries) > 0) =>
         Len(segments) = Cardinality({i \in 0..NumWps :
                           \E x \in DOMAIN entries : Covers(i, entries[x].date)})

\* two waypoints with no measurement between them, and measurements around
C5_Witness ==
  /\ Segmented
  /\ NumWps = 2
  /\ Len(segments) = 2
  /\ ~ \E x \in DOMAIN entries : Covers(1, entries[x].date)

\* C6: with at least one waypoint, waypoints taken ascending by date and
\* ties in input order, the segment of the first pair is "Before <first
\* label>", of the last pair "After <last label>", of an interior pair i
\* "<label i-1> to <label i>"
C6_Labels ==
  (Segmented /\ NumWps >= 1) =>
    \A s \in DOMAIN segments : \A i \in 0..NumWps :
      Covers(i, segments[s].entries[1].date) => segments[s].label = SpecLabel(i)

\* three segments, the two waypoints with different labels
C6_Witness ==
  /\ Segmented
  /\ NumWps = 2
  /\ Len(segments) = 3
  /\ waypoints[1].date > waypoints[2].date
  /\ segments[2].label = waypoints[2].label \o " to " \o waypoints[1].label

(***************************************************************************)
(* What the specification says of a comparison, stated on the inputs.      *)
(***************************************************************************)
Compared == called[1] = "computeWaypointComparison"

\* the waypoint the comparison was asked for
Asked == waypoints[called[2]]

\* the positions of the series dated before the waypoint, and from it on
BeforeSide == {x \in DOMAIN entries : entries[x].date < Asked.date}
AfterSide == {x \in DOMAIN entries : entries[x].date >= Asked.date}

RECURSIVE ScoreSum(_)
ScoreSum(places) ==
  IF places = {} THEN 0
  ELSE LET x == CHOOSE y \in places : TRUE
       IN  entries[x].score + ScoreSum(places \ {x})

\* the series and the waypoint of the specification's scenario:
\* 2024-01-01..04 with scores 40, 50, 90, 90, "Change" on 2024-01-03
Scenario ==
  /\ Compared
  /\ entries = <<[date |-> 1, score |-> 40], [date |-> 2, score |-> 50],
                 [date |-> 3, score |-> 90], [date |-> 4, score |-> 90]>>
  /\ Asked.date = 3
  /\ Asked.label = "Change"

\* C7: the result is null exactly when fewer than 2 measurements are dated
\* before the waypoint or fewer than 2 from it on; otherwise it is one
\* comparison record, of that waypoint
C7_NullIffTooFew ==
  Compared =>
    /\ comparison = <<>> <=> (Cardinality(BeforeSide) < 2 \/ Cardinality(AfterSide) < 2)
    /\ comparison # <<>> => (Len(comparison) = 1 /\ comparison[1].waypoint = Asked)

\* null although one side has two measurements
C7_Witness ==
  /\ Compared
  /\ comparison = <<>>
  /\ Cardinality(BeforeSide) >= 2
  /\ Cardinality(AfterSide) = 1

\* C8: a result counts before the measurements dated before the waypoint
\* and after the ones dated from it on, together the whole series, whatever
\* other waypoints there are
C8_SplitsWholeSeries ==
  (Compared /\ comparison # <<>>) =>
    /\ comparison[1].before.count = Cardinality(BeforeSide)
    /\ comparison[1].after.count = Cardinality(AfterSide)
    /\ comparison[1].before.count + comparison[1].after.count = Len(entries)

\* a result for one of two waypoints, the other one inside the before side
C8_Witness ==
  /\ Compared
  /\ comparison # <<>>
  /\ NumWps = 2
  /\ \E o \in DOMAIN waypoints :
       /\ o # called[2]
       /\ waypoints[o].date < Asked.date
       /\ \E x \in BeforeSide : entries[x].date >= waypoints[o].date
  /\ \E x \in AfterSide : entries[x].date = Asked.date

\* C9: deltaMean is after.mean - before.mean; percentChange is
\* deltaMean / before.mean * 100, and 0 when before.mean is 0; the scenario
\* gives 45 and 100
C9_DeltaAndPercent ==
  (Compared /\ comparison # <<>>) =>
    LET r  == comparison[1]
        sb == ScoreSum(BeforeSide)
        nb == Cardinality(BeforeSide)
        sa == ScoreSum(AfterSide)
        na == Cardinality(AfterSide)
    IN  /\ r.deltaMean = RSub(r.after.mean, r.before.mean)
        /\ r.deltaMean.n * (na * nb) = r.deltaMean.d * (sa * nb - sb * na)
        /\ sb # 0 => r.percentChange.n * (r.deltaMean.d * sb)
                       = r.percentChange.d * (r.deltaMean.n * 100 * nb)
        /\ sb = 0 => r.percentChange = RZero
        /\ Scenario => (r.deltaMean = RInt(45) /\ r.percentChange = RInt(100))

C9_Witness ==
  /\ Scenario
  /\ comparison # <<>>
  /\ comparison[1].before.mean = RInt(45)
  /\ comparison[1].after.mean = RInt(90)

\* x lies within half a hundredth of c / 100, for the square x2 of x >= 0
About(x2, c) ==
  /\ RLe(Rat((2 * c - 1) * (2 * c - 1), 40000), x2)
  /\ RLe(x2, Rat((2 * c + 1) * (2 * c + 1), 40000))

\* C10 as stated: in the scenario the pooled standard deviation is about
\* 7.07 and cohensD about 6.36
C10_AsStated ==
  (Scenario /\ comparison # <<>>) =>
    /\ About(PooledVariance(<<40, 50>>, <<90, 90>>), 707)
    /\ comparison[1].cohensD.sgn = 1
    /\ About(comparison[1].cohensD.sq, 636)

\* C10: in the scenario the pooled standard deviation is 5, the root of
\* (1 * 50 + 1 * 0) / 2, and cohensD is (45 - 90) / 5 = -9
C10_PooledFiveDMinusNine ==
  (Scenario /\ comparison # <<>>) =>
    /\ PooledVariance(<<40, 50>>, <<90, 90>>) = RInt(25)
    /\ comparison[1].cohensD = Root(-1, RInt(81))
    /\ comparison[1].effectSizeLabel = "large"

C10_Witness ==
  /\ Scenario
  /\ comparison # <<>>
  /\ comparison[1].cohensD.sgn # 0

(***************************************************************************)
(* Descriptive statistics of a segment.                                    *)
(***************************************************************************)
\* C11: every bundle computed for a segment of at least one measurement
\* counts the segment's measurements and has
\* min <= p25 <= median <= p75 <= max.
C11_CountAndQuartileOrder ==
  \A b \in stats :
    Len(b[1].entries) >= 1 =>
      /\ b[2].count = Len(b[1].entries)
      /\ RLe(b[2].min, b[2].p25)
      /\ RLe(b[2].p25, b[2].median)
      /\ RLe(b[2].median, b[2].p75)
      /\ RLe(b[2].p75, b[2].max)

\* a segment whose measurements are not in ascending order of score has been
\* summarised and the five numbers are all different
C11_Witness ==
  \E b \in stats :
    /\ b[2].count >= 3
    /\ ScoresOf(b[1].entries) # SortNum(ScoresOf(b[1].entries))
    /\ RLt(b[2].min, b[2].p25)
    /\ RLt(b[2].p25, b[2].median)
    /\ RLt(b[2].median, b[2].p75)
    /\ RLt(b[2].p75, b[2].max)

(***************************************************************************)
(* Two-sample inference on its own.                                        *)
(***************************************************************************)
Returned(name) == called[1] = name

\* all the numbers of a group are one number
AllEqual(g) == \A i, j \in DOMAIN g : g[i] = g[j]

\* the variances of both groups are 0, which makes se and the pooled
\* standard deviation 0
NoSpread == AllEqual(xs) /\ AllEqual(ys)

TooFew == Len(xs) < 2 \/ Len(ys) < 2

\* C12: welchTTest returns exactly 1 and cohensD exactly 0 when a group has
\* fewer than 2 observations; welchTTest returns 1 when the standard error
\* is 0 and cohensD returns 0 when the pooled standard deviation is 0.
\* Each of these calls returns a number.
C12_DegenerateGroups ==
  /\ (Returned("welchTTest") /\ (TooFew \/ NoSpread))
        => ret = [exact |-> TRUE, value |-> [n |-> 1, d |-> 1]]
  /\ (Returned("cohensD") /\ (TooFew \/ NoSpread))
        => ret = [sgn |-> 0, sq |-> [n |-> 0, d |-> 1]]

\* welchTTest has returned 1 for two groups of two or more equal numbers
\* whose means differ
C12_Witness ==
  /\ Returned("welchTTest")
  /\ ~ TooFew
  /\ NoSpread
  /\ xs[1] # ys[1]
  /\ ret = [exact |-> TRUE, value |-> [n |-> 1, d |-> 1]]

\* C13: welchTTest is symmetric: the p-value returned for (xs, ys) is the
\* p-value of the groups taken in the other order, with the same t^2 and
\* the same degrees of freedom.
C13_WelchSymmetric ==
  Returned("welchTTest") => ret = welchTTest(ys, xs)

\* a proper test has been made of two groups of different sizes, means and
\* variances
C13_Witness ==
  /\ Returned("welchTTest")
  /\ ~ ret.exact
  /\ Len(xs) # Len(ys)
  /\ mean(xs) # mean(ys)
  /\ variance(xs) # variance(ys)
  /\ ret = welchTTest(ys, xs)

\* the number of the opposite sign
RootNeg(r) == [sgn |-> 0 - r.sgn, sq |-> r.sq]

\* C14: cohensD is antisymmetric: cohensD(xs, ys) = -cohensD(ys, xs), the
\* zero of the degenerate cases included.
C14_CohensDAntisymmetric ==
  Returned("cohensD") => ret = RootNeg(cohensD(ys, xs))

\* a negative effect size has been returned for two groups of different
\* sizes, and the groups in the other order have the positive one
C14_Witness ==
  /\ Returned("cohensD")
  /\ ret.sgn = -1
  /\ Len(xs) # Len(ys)
  /\ cohensD(ys, xs).sgn = 1
  /\ cohensD(ys, xs).sq = ret.sq

(***************************************************************************)
(* The descriptive functions on their own.                                 *)
(***************************************************************************)
Zero == [n |-> 0, d |-> 1]
ZeroRoot == [sgn |-> 0, sq |-> Zero]

\* C15: mean, median and percentile return 0 for an empty sequence, stdDev
\* returns 0 for a sequence of fewer than 2 values, and
\* coefficientOfVariation returns 0 whenever the mean is 0.
C15_Sentinels ==
  /\ (Returned("mean") /\ xs = <<>>) => ret = Zero
  /\ (Returned("median") /\ xs = <<>>) => ret = Zero
  /\ (Returned("percentile") /\ xs = <<>>) => ret = Zero
  /\ (Returned("stdDev") /\ Len(xs) < 2) => ret = ZeroRoot
  /\ (Returned("coefficientOfVariation") /\ SumSeq(xs) = 0) => ret = ZeroRoot

\* coefficientOfVariation has returned 0 for values that are spread around
\* a mean of 0
C15_Witness ==
  /\ Returned("coefficientOfVariation")
  /\ Len(xs) >= 2
  /\ ~ AllEqual(xs)
  /\ SumSeq(xs) = 0
  /\ ret = ZeroRoot

\* x is the smallest, or the largest, of the numbers of xs
IsMinimum(x) == (\E i \in DOMAIN xs : x = xs[i]) /\ (\A i \in DOMAIN xs : x <= xs[i])
IsMaximum(x) == (\E i \in DOMAIN xs : x = xs[i]) /\ (\A i \in DOMAIN xs : x >= xs[i])

\* the linear interpolation of the sorted copy s at the rank p/100 * (n-1),
\* in hundredths: the floor f of the rank and its ceiling c are positions
\* counted from 0
Interpolated(s, p) ==
  LET r100 == p * (Len(s) - 1)
      f    == r100 \div 100
      c    == IF r100 % 100 = 0 THEN f ELSE f + 1
  IN  Rat(100 * s[f + 1] + (s[c + 1] - s[f + 1]) * (r100 - 100 * f), 100)

\* C16: for a non-empty xs and p in [0, 100], percentile(xs, p) is the
\* linear interpolation s[floor(r)] + (s[ceil(r)] - s[floor(r)]) * (r - floor(r))
\* over the ascending copy s of xs at the rank r = p/100 * (n-1);
\* percentile(xs, 0) is the minimum, percentile(xs, 100) the maximum, and
\* percentile([10,20,30,40], 25) is 17.5.
C16_PercentileInterpolates ==
  (Returned("percentile") /\ xs # <<>>) =>
    /\ ret = Interpolated(SortNum(xs), called[2])
    /\ called[2] = 0 => (ret.d = 1 /\ IsMinimum(ret.n))
    /\ called[2] = 100 => (ret.d = 1 /\ IsMaximum(ret.n))
    /\ (xs = <<10, 20, 30, 40>> /\ called[2] = 25) => ret = [n |-> 35, d |-> 2]

\* the 25th percentile of [10,20,30,40] has been returned, and it is 17.5
C16_Witness ==
  /\ Returned("percentile")
  /\ xs = <<10, 20, 30, 40>>
  /\ called[2] = 25
  /\ ret = [n |-> 35, d |-> 2]

\* xs is c, c + k, c + 2k, ...
IsProgression == \A i \in 2..Len(xs) : xs[i] - xs[i - 1] = xs[2] - xs[1]

Whole(v) == [n |-> v, d |-> 1]

\* C17: for an arithmetic progression c + k*i of two or more values
\* linearRegression returns the slope k and the intercept c ([10,20,30]
\* gives 10 and 10); for fewer than 2 values it returns the slope 0 and the
\* first value as intercept, or 0 for no value.
C17_RegressionOfProgression ==
  Returned("linearRegression") =>
    /\ (Len(xs) >= 2 /\ IsProgression) =>
          ret = [slope |-> Whole(xs[2] - xs[1]), intercept |-> Whole(xs[1])]
    /\ Len(xs) = 1 => ret = [slope |-> Zero, intercept |-> Whole(xs[1])]
    /\ Len(xs) = 0 => ret = [slope |-> Zero, intercept |-> Zero]
    /\ xs = <<10, 20, 30>> => ret = [slope |-> Whole(10), intercept |-> Whole(10)]

\* a falling progression of three or more values has been fitted
C17_Witness ==
  /\ Returned("linearRegression")
  /\ Len(xs) >= 3
  /\ IsProgression
  /\ xs[2] < xs[1]
  /\ ret.slope = Whole(xs[2] - xs[1])
  /\ ret.intercept = Whole(xs[1])

(***************************************************************************)
(* Moving averages of a series.                                            *)
(***************************************************************************)
\* the sum of the scores of the positions from..to of the series
RECURSIVE ScoresFromTo(_, _)
ScoresFromTo(from, to) ==
  IF from > to THEN 0 ELSE entries[from].score + ScoresFromTo(from + 1, to)

\* the series of the scores 10, 20, 30, 40 on the first four days
FourScores ==
  /\ Len(entries) = 4
  /\ \A i \in 1..4 : entries[i].score = 10 * i

\* C18: for a series of length n and a window w >= 1 movingAverage returns
\* exactly n entries; those at the indexes 0..w-2 are null and the entry at
\* an index i >= w-1 is the mean of the scores at i-w+1..i.  The window 3
\* over the scores [10,20,30,40] gives [null, null, 20, 30].
C18_MovingAverage ==
  Returned("movingAverage") =>
    LET w == called[2]
    IN  /\ Len(ret) = Len(entries)
        /\ \A k \in 1..Len(entries) :
              IF k - 1 <= w - 2
              THEN ret[k] = [null |-> TRUE]
              ELSE ret[k] = Rat(ScoresFromTo(k - w + 1, k), w)
        /\ (FourScores /\ w = 3) =>
              ret = <<[null |-> TRUE], [null |-> TRUE], Whole(20), Whole(30)>>

\* the window 3 has been moved over the scores [10,20,30,40]
C18_Witness ==
  /\ Returned("movingAverage")
  /\ FourScores
  /\ called[2] = 3
  /\ ret = <<[null |-> TRUE], [null |-> TRUE], Whole(20), Whole(30)>>

ReadAsHeader(k) ==
  /\ k = Len(raw) - Len(TrimStart(raw)) + 1
  /\ raw[k].mentions

ValidRows ==
  IF Len(SplitLines(raw)) < 2 THEN {}
  ELSE {k \in DOMAIN raw : IsEntry(raw[k]) /\ ~ ReadAsHeader(k)}

RowDate(k) == normalizeDate(raw[k].date)

\* C21: the sequence returned by parseCSV has pairwise distinct dates, is
\* sorted ascending by date, holds only scores in [0, 100], and has for
\* every date of a valid row the score of the last valid row of that date.
C21_ParsedSeries ==
  Returned("parseCSV") =>
    /\ \A i, j \in DOMAIN ret : i < j => IsoLess(ret[i].date, ret[j].date)
    /\ \A i \in DOMAIN ret : ret[i].score >= 0 /\ ret[i].score <= 100
    /\ {ret[i].date : i \in DOMAIN ret} = {RowDate(k) : k \in ValidRows}
    /\ \A i \in DOMAIN ret :
          \E k \in ValidRows :
            /\ RowDate(k) = ret[i].date
            /\ raw[k].score[1] = ret[i].score
            /\ \A l \in ValidRows : RowDate(l) = ret[i].date => l <= k

\* a text with a date on two rows of different scores, written in two
\* forms, and a later date on a row between them has been parsed
C21_Witness ==
  /\ Returned("parseCSV")
  /\ Len(ret) = 2
  /\ \E k, l, m \in ValidRows :
        /\ k < m /\ m < l
        /\ RowDate(k) = RowDate(l)
        /\ raw[k].date # raw[l].date
        /\ raw[k].score # raw[l].score
        /\ IsoLess(RowDate(k), RowDate(m))

\* the sum of the squares of n * x - sum over the numbers x of xs, which is
\* n^2 times the sum of the squared differences from the mean
RECURSIVE ScaledSquares(_, _, _)
ScaledSquares(values, n, sum) ==
  IF values = <<>> THEN 0
  ELSE (n * Head(values) - sum) * (n * Head(values) - sum)
       + ScaledSquares(Tail(values), n, sum)

\* C22: stdDev and the variance helper agree on every sequence: stdDev(xs)
\* is the non-negative root of variance(xs), both divide the sum of the
\* squared differences from the mean by n - 1, and both are 0 for fewer
\* than 2 values.
C22_StdDevIsRootOfVariance ==
  Returned("stdDev") =>
    /\ ret.sq = variance(xs)
    /\ ret.sgn = IF variance(xs) = Zero THEN 0 ELSE 1
    /\ Len(xs) < 2 => (ret = ZeroRoot /\ variance(xs) = Zero)
    /\ Len(xs) >= 2 =>
          ret.sq = Rat(ScaledSquares(xs, Len(xs), SumSeq(xs)),
                       Len(xs) * Len(xs) * (Len(xs) - 1))

\* the deviation of three or more values whose variance is not a whole
\* number has been returned
C22_Witness ==
  /\ Returned("stdDev")
  /\ Len(xs) >= 3
  /\ ret.sgn = 1
  /\ ret.sq.d > 1
  /\ ret.sq = variance(xs)

(***************************************************************************)
(* The special functions end.                                              *)
(***************************************************************************)
\* C23: the continued-fraction loop of regularizedIncompleteBeta makes at
\* most 200 rounds, logGamma calls itself at most once, and every call of
\* the two functions returns.
C23_Terminates ==
  /\ [](special.pc # "idle" => (special.rounds <= 200 /\ special.deepest <= 1))
  /\ <>(special.pc = "done")

\* regularizedIncompleteBeta has returned after 200 rounds, with a
\* reflection in one of its calls of logGamma
C23_Witness ==
  /\ special.pc = "done"
  /\ special.op = "beta"
  /\ special.rounds = 200
  /\ special.deepest = 1

\* C25: for a non-empty series and at least one waypoint, wherever the
\* waypoints are dated (before the first measurement, after the last one, on
\* a measurement's date, several on one date), every measurement is in
\* exactly one returned segment and no segment is the "All Data" fallback
C25_PartitionWithWaypoints ==
  (Segmented /\ NumWps >= 1 /\ Len(entries) > 0) =>
    /\ \A x \in DOMAIN entries : Cardinality(PlacesOf(entries[x])) = 1
    /\ \A s \in DOMAIN segments : segments[s].label # "All Data"

\* two waypoints on one date, which is the date of a measurement that has
\* measurements on both sides
C25_Witness ==
  /\ Segmented
  /\ NumWps = 2
  /\ waypoints[1].date = waypoints[2].date
  /\ \E x \in DOMAIN entries :
        /\ entries[x].date = waypoints[1].date
        /\ 1 < x /\ x < Len(entries)
  /\ Len(segments) = 2
  /\ \A x \in DOMAIN entries : Cardinality(PlacesOf(entries[x])) = 1

\* a waypoint before the first measurement and one after the last
C25_OutsideWitness ==
  /\ Segmented
  /\ NumWps = 2
  /\ Len(entries) >= 2
  /\ \E j, k \in DOMAIN waypoints :
        /\ waypoints[j].date < entries[1].date
        /\ waypoints[k].date > entries[Len(entries)].date
  /\ Len(segments) = 1
  /\ segments[1].entries = entries

\* the measurements dated before day d, and from day d on, in series order
DatedBefore(d) == SelectSeq(entries, LAMBDA e : e.date < d)
DatedFrom(d) == SelectSeq(entries, LAMBDA e : e.date >= d)

\* C26: for a series and one waypoint that have a comparison, buildSegments
\* returns exactly two segments: the measurements before the waypoint,
\* labeled "Before <label>", and the measurements from it on, labeled
\* "After <label>", with the start and end dates of the comparison's sides,
\* and computeSegmentStats of the two segments gives the comparison's before
\* and after bundles
C26_SegmentsAgreeWithComparison ==
  (NumWps = 1 /\ comparison # NoComparison /\ (Segmented \/ segments # NoSegments)) =>
    LET r == comparison[1]
        w == waypoints[1]
    IN  /\ Len(segments) = 2
        /\ segments[1].entries = DatedBefore(w.date)
        /\ segments[2].entries = DatedFrom(w.date)
        /\ segments[1].label = "Before " \o w.label
        /\ segments[2].label = "After " \o w.label
        /\ segments[1].startDate = r.before.startDate
        /\ segments[1].endDate = r.before.endDate
        /\ segments[2].startDate = r.after.startDate
        /\ segments[2].endDate = r.after.endDate
        /\ computeSegmentStats(segments[1]) = r.before
        /\ computeSegmentStats(segments[2]) = r.after

\* a series of four measurements segmented and compared at a waypoint dated
\* on the third
C26_Witness ==
  /\ NumWps = 1
  /\ comparison # NoComparison
  /\ Len(segments) = 2
  /\ Len(entries) = 4
  /\ waypoints[1].date = 3
  /\ comparison[1].before.count = 2
  /\ comparison[1].after.count = 2
  /\ comparison[1].before.mean # comparison[1].after.mean
  /\ computeSegmentStats(segments[2]) = comparison[1].after

(***************************************************************************)
(* What is said of the stored waypoints and series.                        *)
(***************************************************************************)
\* the stored waypoint list, as getWaypoints returns it
Stored == getWaypoints(storage)
StoredIds == {Stored[k].id : k \in DOMAIN Stored}

\* the list is ascending by date and holds no waypoint twice
StoredInOrder ==
  /\ \A j, k \in DOMAIN Stored : j < k => Stored[j].date <= Stored[k].date
  /\ Cardinality(StoredIds) = Len(Stored)

\* what a call does to the stored list: the called operation and its id are
\* those of the step
StoredAfterCall ==
  LET op     == called'[1]
      id     == called'[2]
      after  == getWaypoints(storage')
      idsNow == {after[k].id : k \in DOMAIN after}
  IN  /\ op = "addWaypoint" => (idsNow = StoredIds \cup {id} /\ id \notin StoredIds)
      /\ op = "removeWaypoint" =>
            /\ idsNow = StoredIds \ {id}
            /\ \A k \in DOMAIN Stored : Stored[k].id # id =>
                  \E j \in DOMAIN after : after[j] = Stored[k]
            /\ id \notin StoredIds => after = Stored
      /\ op = "updateWaypoint" =>
            /\ idsNow = StoredIds
            /\ \A k \in DOMAIN Stored : Stored[k].id # id =>
                  \E j \in DOMAIN after : after[j] = Stored[k]
            /\ id \notin StoredIds => after = Stored
      /\ op = "clearAll" => after = <<>>

\* C28: from empty storage on, after any calls of addWaypoint,
\* removeWaypoint, updateWaypoint and clearAll the stored waypoint list is
\* ascending by date and holds exactly the waypoints added and not removed
\* since (each call adds its waypoint, removes the one of its id, keeps the
\* ids, or empties the list), and a removal or an update with an id that is
\* not stored leaves the list as it is
C28_StoredWaypoints == [] StoredInOrder /\ [][StoredAfterCall]_vars

\* an update gave the waypoint added first a later date than the one added
\* second has, after a third waypoint was removed
C28_Witness ==
  /\ called[1] = "updateWaypoint"
  /\ issued = Ids
  /\ Len(Stored) = 2
  /\ Stored[1].date < Stored[2].date
  /\ called[2] = Stored[2].id
  /\ Stored[1].id > Stored[2].id

\* the stored series and the stored active id, as the page reads them
StoredSeries == getAllSeries(storage)
StoredSeriesIds == {StoredSeries[k].id : k \in DOMAIN StoredSeries}
ActiveId == getActiveSeriesId(storage)

\* null exactly when no series is stored, else the id of a stored series;
\* the series added last is the active one
ActiveIsStored ==
  /\ ActiveId = NoId <=> StoredSeries = <<>>
  /\ StoredSeries # <<>> => ActiveId \in StoredSeriesIds
  /\ called[1] = "addSeries" => ActiveId = called[2]

\* the removal of the active series makes the first of the others active,
\* the removal of another series leaves the active one
ActiveAfterRemoval ==
  called'[1] = "removeSeries" =>
    LET rest == SelectSeq(StoredSeries, LAMBDA srs : srs.id # called'[2])
    IN  /\ getAllSeries(storage') = rest
        /\ (ActiveId = called'[2] /\ rest # <<>>) =>
              getActiveSeriesId(storage') = rest[1].id
        /\ ActiveId # called'[2] => getActiveSeriesId(storage') = ActiveId

\* C29: from empty storage on, after any calls of addSeries with new ids,
\* removeSeries, updateSeries, clearAll and setActiveSeriesId with the id
\* of a stored series, activeSeriesId is null exactly when no series is
\* stored and is the id of a stored series otherwise; addSeries makes the
\* new series the active one and the removal of the active series makes
\* the first remaining series the active one
C29_ActiveSeries == [] ActiveIsStored /\ [][ActiveAfterRemoval]_vars

\* the second of three series was active and was removed: the first is
\* active, not the last
C29_Witness ==
  /\ called[1] = "removeSeries"
  /\ issued = Ids
  /\ Len(StoredSeries) = 2
  /\ ActiveId = StoredSeries[1].id
  /\ \A k \in DOMAIN StoredSeries : StoredSeries[k].id # called[2]
  /\ StoredSeries[1].name = "Data"
  /\ StoredSeries[2].name = "Data (3)"

\* C30: after any calls of renderChart and destroyChart, from the page or
\* from elsewhere, at most one Chart object is alive, the one chartInstance
\* refers to: renderChart destroys the current object before it makes a new
\* one or returns without making one, and destroyChart leaves none alive
C30_OneLiveChart ==
  /\ Cardinality(chart.live) <= 1
  /\ chart.live = IF chart.chartInstance = NoId THEN {} ELSE {chart.chartInstance}
  /\ called[1] = "destroyChart" => chart.live = {}
  /\ called = <<"renderChart", 0>> => chart.live = {}
  /\ called = <<"renderChart", 1>> =>
        Cardinality(chart.live) = IF StoredSeries = <<>> THEN 0 ELSE 1

\* renderChart was called with two stored series, all hidden, and returned
\* early: the object drawn for the page is destroyed
C30_Witness ==
  /\ called = <<"renderChart", 0>>
  /\ Len(StoredSeries) = 2
  /\ chart = NoChart

(***************************************************************************)
(* The reflection of the incomplete beta function.                         *)
(***************************************************************************)
\* both values of a pair of calls have been returned
BothReturned == called[1] = "regularizedIncompleteBeta" /\ Len(ret) = 2

\* 1e-8
ReflectionTolerance == FDecimal(1, 8)

\* C24: for x in (0, 1) and a, b > 0, regularizedIncompleteBeta(x, a, b) +
\* regularizedIncompleteBeta(1 - x, b, a) is 1 within 1e-8
C24_Reflection ==
  BothReturned =>
    ~ FLt(ReflectionTolerance, FAbs(FSub(FAdd(ret[1], ret[2]), FOne)))

\* at x = 1/2 the two values add up to 1 within 1e-8
HalfReflects ==
  (BothReturned /\ called[2][1] = 2 ^ (XBits - 1)) =>
    ~ FLt(ReflectionTolerance, FAbs(FSub(FAdd(ret[1], ret[2]), FOne)))

(***************************************************************************)
(* Constant sides at different levels.                                     *)
(***************************************************************************)
\* every score of a side is the same
ConstantSide(values) == \A k \in DOMAIN values : values[k] = values[1]

\* a comparison was made of two constant sides of 2 or more at two levels
ConstantSidesCompared ==
  /\ called = <<"computeWaypointComparison", 0>>
  /\ Len(xs) >= 2
  /\ Len(ys) >= 2
  /\ ConstantSide(xs)
  /\ ConstantSide(ys)
  /\ xs[1] # ys[1]

\* C27: when every before score is u and every after score is v, u # v,
\* with 2 or more on each side, the comparison has a non-zero deltaMean,
\* tTestPValue 1, cohensD 0, "not significant" and "negligible"
C27_ConstantSides ==
  ConstantSidesCompared =>
    /\ ret.deltaMean # FZero
    /\ ret.tTestPValue = PValue(FInt(1))
    /\ ret.cohensD = FZero
    /\ ret.significanceLabel = "not significant"
    /\ ret.effectSizeLabel = "negligible"

\* for sides of 2 scores each the means are the scores, and both tests see
\* no variance
PairsOfLevelsAgree ==
  (ConstantSidesCompared /\ Len(xs) = 2 /\ Len(ys) = 2) =>
    /\ ret.deltaMean # FZero
    /\ ret.tTestPValue = PValue(FInt(1))
    /\ ret.cohensD = FZero

====
